---- MODULE Spec2Model ----
(***************************************************************************)
(* Model of the devops-backend chat service:                               *)
(*   - the branching conversation store (internal/data/session.go)         *)
(*   - the streaming turn ChatUsecase.ChatStream (internal/biz/session.go) *)
(*                                                                         *)
(* Conventions                                                             *)
(*   - Go strings are TLA+ strings; "" is the empty string.                *)
(*   - tree and session ids (generateID: 128 random bits) are fresh        *)
(*     naturals 1, 2, ...; 0 stands for the empty id "".                   *)
(*   - sql.NullString / sql.NullInt64 are records [Valid, String|Int64].   *)
(*   - a nil slice / nil Session is the empty sequence << >>.              *)
(*   - statements whose error the code checks take a fault input; the      *)
(*     statements whose error the code drops are taken to succeed.         *)
(***************************************************************************)
EXTENDS Integers, Sequences, FiniteSets, TLC

VARIABLES
    db,     \* the SQLite database behind sqliteSessionRepo.db
    idgen,  \* number of ids handed out by generateID so far
    pool,   \* the database/sql connection pool of sqliteSessionRepo.db
    ret,    \* the last store call with its arguments and returned values
    turn,   \* the Chat or ChatStream call in progress (or the last finished)
    calls,  \* the store calls of concurrent requests, each at its statement
    conf,   \* the configuration the ClientFactory was built from
    rs,     \* one Stream call of the Responses-API client: its goroutines
    hist,   \* history: the message ids that have ever been in the store
    app     \* one call of a function of the factory or of an adapter

vars == <<db, idgen, pool, ret, turn, calls, conf, rs, hist, app>>

\* what the sequential store calls and the turns leave alone
elsewhere == <<calls, conf, rs, app>>

----------------------------------------------------------------------------
(* Bounds of the model *)

MaxTrees == 1
MaxSessions == 2
MaxMessages == 3
MaxEvents == 2
MaxIdTrees == 2

\* events the backend sends on one connection
MaxWire == 3

(* Program constants *)

TitleLimit == 15
MaxIdleConns == 2

TreeIds == 1..MaxTrees
SessionIds == 1..MaxSessions
MessageIds == 1..MaxMessages

----------------------------------------------------------------------------
(* Values *)

User == "user"
Assistant == "assistant"
System == "system"
Tool == "tool"

ErrNone == ""
ErrSessionNotFound == "session not found"
ErrParentNotFound == "parent message not found"
ErrCreateBranch == "failed to create branch"
ErrMarshal == "failed to marshal message"
ErrInsert == "failed to insert message"

NullString == [Valid |-> FALSE, String |-> ""]
ValidString(s) == [Valid |-> TRUE, String |-> s]
NullInt64 == [Valid |-> FALSE, Int64 |-> 0]
ValidInt64(n) == [Valid |-> TRUE, Int64 |-> n]

\* schema.Message, restricted to the fields the store and the turn read
Message(role, content, reasoning, multi) ==
    [Role |-> role, Content |-> content, ReasoningContent |-> reasoning,
     AssistantGenMultiContent |-> multi]

\* json.Marshal(msg): the stored text, tagged as well-formed JSON of msg
Marshal(msg) == [json |-> TRUE, value |-> msg]

\* json.Unmarshal(data, &msg) == nil
Decodes(data) == data.json

\* the message json.Unmarshal yields
Unmarshal(data) == data.value

\* biz.ChatResponse
ChatResponse(msg, model) == [Message |-> msg, Model |-> model]

Text15 == "123456789012345"
Text16 == "1234567890123456"

\* the payloads callers hand to the store
Payloads ==
    { Message(User, "hi", "", <<>>),
      Message(Assistant, "ok", "", <<>>) }

\* payloads around the title rule: empty text, 15 and 16 characters, not user
TitlePayloads ==
    { Message(User, "", "", <<>>),
      Message(User, Text15, "", <<>>),
      Message(User, Text16, "", <<>>),
      Message(Assistant, "ok", "", <<>>) }

\* the model tag that goes with a payload (empty for user messages)
ModelOf(msg) == IF msg.Role = Assistant THEN "gpt" ELSE ""

Max(S) == CHOOSE x \in S : \A y \in S : y <= x
Min(S) == CHOOSE x \in S : \A y \in S : x <= y

RECURSIVE SortedSeq(_)
\* the elements of a finite set of integers, ascending (ORDER BY m.id)
SortedSeq(S) == IF S = {} THEN <<>> ELSE <<Min(S)>> \o SortedSeq(S \ {Min(S)})

----------------------------------------------------------------------------
(* The database: tables session_trees, sessions, messages *)

TreeRow(title, updated_at) == [title |-> title, updated_at |-> updated_at]

SessionRow(tree_id, message_count) ==
    [tree_id |-> tree_id, message_count |-> message_count]

MessageRow(session_id, parent_id, role, model, message_data) ==
    [session_id |-> session_id, parent_id |-> parent_id, role |-> role,
     model |-> model, message_data |-> message_data]

NoRows == [k \in {} |-> k]

\* the schema right after NewSQLiteSessionRepo on a new file; sqlite_sequence
\* is the AUTOINCREMENT counter of messages.id
EmptyDB ==
    [session_trees |-> NoRows, sessions |-> NoRows, messages |-> NoRows,
     sqlite_sequence |-> 0]

\* CURRENT_TIMESTAMP of the next write, as a logical clock that ticks with
\* every row inserted into messages
Now(d) == d.sqlite_sequence + 1

\* rows of messages that belong to a session
MessagesOf(d, sessionID) ==
    {m \in DOMAIN d.messages : d.messages[m].session_id = sessionID}

\* rows of sessions that name a tree
SessionsOf(d, treeID) ==
    {s \in DOMAIN d.sessions : d.sessions[s].tree_id = treeID}

SessionExists(d, sessionID) == sessionID \in DOMAIN d.sessions

GetTreeID(d, sessionID) ==
    IF SessionExists(d, sessionID)
    THEN [treeID |-> d.sessions[sessionID].tree_id, err |-> ErrNone]
    ELSE [treeID |-> 0, err |-> ErrSessionNotFound]

\* mutant: the cut is taken one character early (>= for >)
newTitleCutAtLimit(content) ==
    IF Len(content) >= TitleLimit
    THEN SubSeq(content, 1, TitleLimit) \o "..."
    ELSE content

\* the title updateMetadataAfterAppend derives from a message text
newTitle(content) ==
    IF Len(content) > TitleLimit
    THEN SubSeq(content, 1, TitleLimit) \o "..."
    ELSE content

\* mutant: message_count is left as it was
updateMetadataWithoutCount(d, t, sessionID, msg) ==
    LET treeID == IF sessionID \in DOMAIN d.sessions
                  THEN d.sessions[sessionID].tree_id ELSE 0
        currentTitle == IF treeID \in DOMAIN d.session_trees
                        THEN d.session_trees[treeID].title ELSE NullString
        d2 == IF /\ (~currentTitle.Valid \/ currentTitle.String = "")
                 /\ msg.Role = User
                 /\ msg.Content # ""
                 /\ treeID \in DOMAIN d.session_trees
              THEN [d EXCEPT !.session_trees[treeID].title =
                                  ValidString(newTitle(msg.Content))]
              ELSE d
    IN  IF treeID \in DOMAIN d2.session_trees
        THEN [d2 EXCEPT !.session_trees[treeID].updated_at = t]
        ELSE d2

\* the database after updateMetadataAfterAppend(sessionID, msg) at time t
updateMetadataAfterAppend(d, t, sessionID, msg) ==
    LET treeID == IF sessionID \in DOMAIN d.sessions
                  THEN d.sessions[sessionID].tree_id ELSE 0
        d1 == IF sessionID \in DOMAIN d.sessions
              THEN [d EXCEPT !.sessions[sessionID].message_count = @ + 1]
              ELSE d
        currentTitle == IF treeID \in DOMAIN d1.session_trees
                        THEN d1.session_trees[treeID].title ELSE NullString
        d2 == IF /\ (~currentTitle.Valid \/ currentTitle.String = "")
                 /\ msg.Role = User
                 /\ msg.Content # ""
                 /\ treeID \in DOMAIN d1.session_trees
              THEN [d1 EXCEPT !.session_trees[treeID].title =
                                   ValidString(newTitle(msg.Content))]
              ELSE d1
    IN  IF treeID \in DOMAIN d2.session_trees
        THEN [d2 EXCEPT !.session_trees[treeID].updated_at = t]
        ELSE d2

\* mutant: the session row is not written
NewConversationNoSession(d, t, treeID, sessionID) ==
    [d EXCEPT !.session_trees = @ @@ (treeID :> TreeRow(NullString, t))]

\* NewConversation with the two generated ids, at time t
NewConversation(d, t, treeID, sessionID) ==
    [d EXCEPT !.session_trees = @ @@ (treeID :> TreeRow(NullString, t)),
              !.sessions = @ @@ (sessionID :> SessionRow(treeID, 0))]

\* mutant: the id is one more than the highest id in the table (a rowid
\* without AUTOINCREMENT)
InsertMessageRowid(d, row) ==
    LET id == IF DOMAIN d.messages = {} THEN 1 ELSE Max(DOMAIN d.messages) + 1
    IN  [d EXCEPT !.messages = @ @@ (id :> row),
                  !.sqlite_sequence = @ + 1]

\* mutant: the row replaces the newest row of the table
InsertMessageReplacing(d, row) ==
    [d EXCEPT !.messages = [k \in DOMAIN @ \cup {Max({1, d.sqlite_sequence})} |->
                               IF k = Max({1, d.sqlite_sequence}) THEN row ELSE @[k]],
              !.sqlite_sequence = @ + 1]

\* INSERT INTO messages: the row gets the next AUTOINCREMENT id
InsertMessage(d, row) ==
    [d EXCEPT !.messages = @ @@ ((d.sqlite_sequence + 1) :> row),
              !.sqlite_sequence = @ + 1]

\* mutant: no SessionExists check before the insert
AppendMessageNoCheck(d, t, sessionID, msg, model, fault) ==
    LET own == MessagesOf(d, sessionID)
        parentID == IF own = {} THEN NullInt64 ELSE ValidInt64(Max(own))
        row == MessageRow(sessionID, parentID, msg.Role, model, Marshal(msg))
        d1 == InsertMessage(d, row)
    IN  IF fault = "marshal" THEN [db |-> d, id |-> 0, err |-> ErrMarshal]
        ELSE IF fault = "insert" THEN [db |-> d, id |-> 0, err |-> ErrInsert]
        ELSE [db |-> updateMetadataAfterAppend(d1, t, sessionID, msg),
              id |-> d1.sqlite_sequence, err |-> ErrNone]

\* mutant: the parent is the newest row of the table, whatever its session
AppendMessageAfterNewest(d, t, sessionID, msg, model, fault) ==
    IF ~SessionExists(d, sessionID)
    THEN [db |-> d, id |-> 0, err |-> ErrSessionNotFound]
    ELSE
    LET all == DOMAIN d.messages
        parentID == IF all = {} THEN NullInt64 ELSE ValidInt64(Max(all))
        row == MessageRow(sessionID, parentID, msg.Role, model, Marshal(msg))
        d1 == InsertMessage(d, row)
    IN  IF fault = "marshal" THEN [db |-> d, id |-> 0, err |-> ErrMarshal]
        ELSE IF fault = "insert" THEN [db |-> d, id |-> 0, err |-> ErrInsert]
        ELSE [db |-> updateMetadataAfterAppend(d1, t, sessionID, msg),
              id |-> d1.sqlite_sequence, err |-> ErrNone]

\* AppendMessage(sessionID, msg, model) at time t; fault names the checked
\* statement that fails ("none", "marshal", "insert")
AppendMessage(d, t, sessionID, msg, model, fault) ==
    IF ~SessionExists(d, sessionID)
    THEN [db |-> d, id |-> 0, err |-> ErrSessionNotFound]
    ELSE
    LET own == MessagesOf(d, sessionID)
        parentID == IF own = {} THEN NullInt64 ELSE ValidInt64(Max(own))
        row == MessageRow(sessionID, parentID, msg.Role, model, Marshal(msg))
        d1 == InsertMessage(d, row)
    IN  IF fault = "marshal" THEN [db |-> d, id |-> 0, err |-> ErrMarshal]
        ELSE IF fault = "insert" THEN [db |-> d, id |-> 0, err |-> ErrInsert]
        ELSE [db |-> updateMetadataAfterAppend(d1, t, sessionID, msg),
              id |-> d1.sqlite_sequence, err |-> ErrNone]

\* mutant: the branch's first message is inserted into the parent's session
CreateBranchIntoParentSession(d, t, sessionID, parentMsgID, msg, fk, fault) ==
    LET found == /\ parentMsgID \in DOMAIN d.messages
                 /\ d.messages[parentMsgID].session_id \in DOMAIN d.sessions
        treeID == d.sessions[d.messages[parentMsgID].session_id].tree_id
        d1 == [d EXCEPT !.sessions = @ @@ (sessionID :> SessionRow(treeID, 0))]
        row == MessageRow(d.messages[parentMsgID].session_id,
                          ValidInt64(parentMsgID), msg.Role, "", Marshal(msg))
        d2 == InsertMessage(d1, row)
    IN  IF ~found
        THEN [db |-> d, sessionID |-> 0, msgID |-> 0, err |-> ErrParentNotFound]
        ELSE IF fault = "session" \/ (fk /\ treeID \notin DOMAIN d.session_trees)
        THEN [db |-> d, sessionID |-> 0, msgID |-> 0, err |-> ErrCreateBranch]
        ELSE IF fault = "marshal"
        THEN [db |-> d1, sessionID |-> 0, msgID |-> 0, err |-> ErrMarshal]
        ELSE IF fault = "insert"
        THEN [db |-> d1, sessionID |-> 0, msgID |-> 0, err |-> ErrInsert]
        ELSE [db |-> updateMetadataAfterAppend(d2, t, sessionID, msg),
              sessionID |-> sessionID, msgID |-> d2.sqlite_sequence,
              err |-> ErrNone]

\* mutant: the branch's first message is stored without its parent
CreateBranchWithoutParent(d, t, sessionID, parentMsgID, msg, fk, fault) ==
    LET found == /\ parentMsgID \in DOMAIN d.messages
                 /\ d.messages[parentMsgID].session_id \in DOMAIN d.sessions
        treeID == d.sessions[d.messages[parentMsgID].session_id].tree_id
        d1 == [d EXCEPT !.sessions = @ @@ (sessionID :> SessionRow(treeID, 0))]
        row == MessageRow(sessionID, NullInt64, msg.Role, "", Marshal(msg))
        d2 == InsertMessage(d1, row)
    IN  IF ~found
        THEN [db |-> d, sessionID |-> 0, msgID |-> 0, err |-> ErrParentNotFound]
        ELSE IF fault = "session" \/ (fk /\ treeID \notin DOMAIN d.session_trees)
        THEN [db |-> d, sessionID |-> 0, msgID |-> 0, err |-> ErrCreateBranch]
        ELSE IF fault = "marshal"
        THEN [db |-> d1, sessionID |-> 0, msgID |-> 0, err |-> ErrMarshal]
        ELSE IF fault = "insert"
        THEN [db |-> d1, sessionID |-> 0, msgID |-> 0, err |-> ErrInsert]
        ELSE [db |-> updateMetadataAfterAppend(d2, t, sessionID, msg),
              sessionID |-> sessionID, msgID |-> d2.sqlite_sequence,
              err |-> ErrNone]

\* CreateBranchWithMessage(parentMsgID, msg) at time t with the generated
\* session id; fk tells whether the connection that runs the session insert
\* enforces foreign keys; fault as for AppendMessage, plus "session"
CreateBranchWithMessage(d, t, sessionID, parentMsgID, msg, fk, fault) ==
    LET found == /\ parentMsgID \in DOMAIN d.messages
                 /\ d.messages[parentMsgID].session_id \in DOMAIN d.sessions
        treeID == d.sessions[d.messages[parentMsgID].session_id].tree_id
        d1 == [d EXCEPT !.sessions = @ @@ (sessionID :> SessionRow(treeID, 0))]
        row == MessageRow(sessionID, ValidInt64(parentMsgID), msg.Role, "",
                          Marshal(msg))
        d2 == InsertMessage(d1, row)
    IN  IF ~found
        THEN [db |-> d, sessionID |-> 0, msgID |-> 0, err |-> ErrParentNotFound]
        ELSE IF fault = "session" \/ (fk /\ treeID \notin DOMAIN d.session_trees)
        THEN [db |-> d, sessionID |-> 0, msgID |-> 0, err |-> ErrCreateBranch]
        ELSE IF fault = "marshal"
        THEN [db |-> d1, sessionID |-> 0, msgID |-> 0, err |-> ErrMarshal]
        ELSE IF fault = "insert"
        THEN [db |-> d1, sessionID |-> 0, msgID |-> 0, err |-> ErrInsert]
        ELSE [db |-> updateMetadataAfterAppend(d2, t, sessionID, msg),
              sessionID |-> sessionID, msgID |-> d2.sqlite_sequence,
              err |-> ErrNone]

\* DeleteTree(treeID) on a connection that enforces foreign keys (fk) or not:
\* ON DELETE CASCADE acts only on a connection with PRAGMA foreign_keys = ON
DeleteTree(d, treeID, fk) ==
    IF treeID \notin DOMAIN d.session_trees THEN d
    ELSE
    LET keptTrees == DOMAIN d.session_trees \ {treeID}
        keptSessions == IF fk THEN DOMAIN d.sessions \ SessionsOf(d, treeID)
                        ELSE DOMAIN d.sessions
        keptMessages == {m \in DOMAIN d.messages :
                            d.messages[m].session_id \in keptSessions}
    IN  [d EXCEPT !.session_trees = [k \in keptTrees |-> d.session_trees[k]],
                  !.sessions = [k \in keptSessions |-> d.sessions[k]],
                  !.messages = [k \in keptMessages |-> d.messages[k]]]

----------------------------------------------------------------------------
(* GetSessionMessages *)

\* the rows the query returns: every message of a session of the tree that
\* the session belongs to (none when the session does not exist)
msgMap(d, sessionID) ==
    IF sessionID \notin DOMAIN d.sessions THEN {}
    ELSE {m \in DOMAIN d.messages :
            /\ d.messages[m].session_id \in DOMAIN d.sessions
            /\ d.sessions[d.messages[m].session_id].tree_id =
                   d.sessions[sessionID].tree_id}

\* the session's own rows, in id order
currentSessionMsgs(d, sessionID) ==
    SortedSeq({m \in msgMap(d, sessionID) :
                  d.messages[m].session_id = sessionID})

RECURSIVE walkAppending(_, _, _, _)
\* mutant: each node found is put behind the ancestors collected so far
walkAppending(d, map, parentID, ancestors) ==
    IF ~(parentID > 0) \/ parentID \notin map THEN ancestors
    ELSE
    LET node == d.messages[parentID]
        next == IF Decodes(node.message_data)
                THEN ancestors \o <<parentID>> ELSE ancestors
    IN  IF node.parent_id.Valid
        THEN walkAppending(d, map, node.parent_id.Int64, next)
        ELSE next

RECURSIVE walk(_, _, _, _)
\* the loop "for parentID > 0": each decodable node found in the map is put
\* in front of the ancestors collected so far
walk(d, map, parentID, ancestors) ==
    IF ~(parentID > 0) \/ parentID \notin map THEN ancestors
    ELSE
    LET node == d.messages[parentID]
        next == IF Decodes(node.message_data)
                THEN <<parentID>> \o ancestors ELSE ancestors
    IN  IF node.parent_id.Valid
        THEN walk(d, map, node.parent_id.Int64, next)
        ELSE next

\* ids of the ancestors of the session's first message, oldest first
ancestors(d, sessionID) ==
    LET cur == currentSessionMsgs(d, sessionID)
    IN  IF cur # <<>> /\ d.messages[cur[1]].parent_id.Valid
        THEN walk(d, msgMap(d, sessionID), d.messages[cur[1]].parent_id.Int64, <<>>)
        ELSE <<>>

\* ids of the session's own messages that decode
currentMsgs(d, sessionID) ==
    SelectSeq(currentSessionMsgs(d, sessionID),
              LAMBDA m : Decodes(d.messages[m].message_data))

\* ids of the rows behind the result, in result order
ResolvedIDs(d, sessionID) ==
    IF currentSessionMsgs(d, sessionID) = <<>> THEN <<>>
    ELSE ancestors(d, sessionID) \o currentMsgs(d, sessionID)

\* the biz.Session returned: one ChatResponse per resolved row
GetSessionMessages(d, sessionID) ==
    LET ids == ResolvedIDs(d, sessionID)
    IN  [i \in 1..Len(ids) |->
            ChatResponse(Unmarshal(d.messages[ids[i]].message_data),
                         d.messages[ids[i]].model)]

----------------------------------------------------------------------------
(* The connection pool of sql.DB.  NewSQLiteSessionRepo runs                *)
(* "PRAGMA foreign_keys = ON" once through db.Exec, that is on the one      *)
(* connection the pool holds at that time; a connection the pool opens      *)
(* later, because every pooled one is in use, starts with SQLite's default  *)
(* (foreign keys off).  pool.on / pool.off count the idle connections with  *)
(* and without enforcement, pool.rows is the connection that the open      *)
(* result set of a running GetSessionMessages holds ("none": none runs).    *)

InitPool == [on |-> 1, off |-> 0, rows |-> "none"]

Idle(p) == p.on + p.off

\* the connections a statement may run on: an idle one, or a new one when
\* none is idle; TRUE stands for one that enforces foreign keys
Conns(p) ==
    {fk \in BOOLEAN : IF fk THEN p.on > 0 ELSE (p.off > 0 \/ Idle(p) = 0)}

\* putConn: the connection goes back to the idle list unless that is full
Release(p, fk) ==
    IF Idle(p) >= MaxIdleConns THEN p
    ELSE IF fk THEN [p EXCEPT !.on = @ + 1] ELSE [p EXCEPT !.off = @ + 1]

\* conn: an idle connection is taken, else a new one is opened
Acquire(p, fk) ==
    IF fk THEN [p EXCEPT !.on = @ - 1]
    ELSE IF p.off > 0 THEN [p EXCEPT !.off = @ - 1] ELSE p

\* the pool after a call whose statements ran on connection fk
UseConn(p, fk) == Release(Acquire(p, fk), fk)

\* no result set is open (a write commits only then)
NoOpenRows == pool.rows = "none"

Ret(op, sessionID, treeID, msgID, parentMsgID, err) ==
    [op |-> op, sessionID |-> sessionID, treeID |-> treeID, msgID |-> msgID,
     parentMsgID |-> parentMsgID, err |-> err]

\* the checked statements the environment makes fail
AppendFaults == {"none", "insert"}
BranchFaults == {"none", "insert"}

----------------------------------------------------------------------------
(* Calls of the repository *)

\* the history after a step that leaves the database as d
Observe(h, d) == [h EXCEPT !.ids = @ \cup DOMAIN d.messages]

NewConversationUpTo(maxTrees) ==
    /\ NoOpenRows
    /\ idgen.tree < maxTrees
    /\ idgen.session < MaxSessions
    /\ \E fk \in Conns(pool) :
        /\ db' = NewConversation(db, Now(db), idgen.tree + 1, idgen.session + 1)
        /\ idgen' = [tree |-> idgen.tree + 1, session |-> idgen.session + 1]
        /\ pool' = UseConn(pool, fk)
        /\ ret' = Ret("NewConversation", idgen.session + 1, idgen.tree + 1, 0, 0,
                      ErrNone)
    /\ UNCHANGED turn
    /\ hist' = Observe(hist, db')
    /\ UNCHANGED elsewhere

AppendMessageFrom(payloads) ==
    /\ NoOpenRows
    /\ db.sqlite_sequence < MaxMessages
    /\ \E sessionID \in SessionIds, msg \in payloads, fault \in AppendFaults,
          fk \in Conns(pool) :
        LET r == AppendMessage(db, Now(db), sessionID, msg, ModelOf(msg), fault)
        IN  /\ db' = r.db
            /\ pool' = UseConn(pool, fk)
            /\ ret' = Ret("AppendMessage", sessionID, 0, r.id, 0, r.err)
    /\ UNCHANGED <<idgen, turn>>
    /\ hist' = Observe(hist, db')
    /\ UNCHANGED elsewhere

CreateBranchWithMessageFrom(payloads) ==
    /\ NoOpenRows
    /\ db.sqlite_sequence < MaxMessages
    /\ idgen.session < MaxSessions
    /\ \E parentMsgID \in MessageIds, msg \in payloads, fault \in BranchFaults,
          fk \in Conns(pool) :
        LET r == CreateBranchWithMessage(db, Now(db), idgen.session + 1,
                                         parentMsgID, msg, fk, fault)
        IN  /\ db' = r.db
            /\ idgen' = IF r.err = ErrParentNotFound THEN idgen
                        ELSE [idgen EXCEPT !.session = @ + 1]
            /\ pool' = UseConn(pool, fk)
            /\ ret' = Ret("CreateBranchWithMessage", r.sessionID, 0, r.msgID,
                          parentMsgID, r.err)
    /\ UNCHANGED turn
    /\ hist' = Observe(hist, db')
    /\ UNCHANGED elsewhere

CallNewConversation == NewConversationUpTo(MaxTrees)

CallAppendMessage == AppendMessageFrom(Payloads)

CallCreateBranchWithMessage == CreateBranchWithMessageFrom(Payloads)

CallDeleteTree ==
    /\ NoOpenRows
    /\ \E treeID \in TreeIds, fk \in Conns(pool) :
        /\ db' = DeleteTree(db, treeID, fk)
        /\ pool' = UseConn(pool, fk)
        /\ ret' = Ret("DeleteTree", 0, treeID, 0, 0, ErrNone)
    /\ UNCHANGED <<idgen, turn>>
    /\ hist' = Observe(hist, db')
    /\ UNCHANGED elsewhere

\* SessionExists or GetTreeID: one read statement
CallGetTreeID ==
    /\ \E sessionID \in SessionIds, fk \in Conns(pool) :
        /\ GetTreeID(db, sessionID).err \in {ErrNone, ErrSessionNotFound}
        /\ pool' = UseConn(pool, fk)
    /\ UNCHANGED <<db, idgen, ret, turn>>
    /\ hist' = Observe(hist, db')
    /\ UNCHANGED elsewhere

\* GetSessionMessages starts: db.Query takes a connection and keeps it until
\* the rows are closed
OpenRows ==
    /\ pool.rows = "none"
    /\ \E sessionID \in SessionIds, fk \in Conns(pool) :
        /\ Len(GetSessionMessages(db, sessionID)) >= 0
        /\ pool' = [Acquire(pool, fk) EXCEPT !.rows = IF fk THEN "on" ELSE "off"]
    /\ UNCHANGED <<db, idgen, ret, turn>>
    /\ hist' = Observe(hist, db')
    /\ UNCHANGED elsewhere

\* GetSessionMessages returns: the deferred rows.Close() gives the
\* connection back
CloseRows ==
    /\ pool.rows # "none"
    /\ pool' = Release([pool EXCEPT !.rows = "none"], pool.rows = "on")
    /\ UNCHANGED <<db, idgen, ret, turn>>
    /\ hist' = Observe(hist, db')
    /\ UNCHANGED elsewhere

----------------------------------------------------------------------------
(* Store calls of concurrent requests.  The HTTP server runs every request  *)
(* in a goroutine of its own and sqliteSessionRepo holds no lock, so the    *)
(* statements of two calls interleave; each statement is atomic.            *)

\* the requests in flight at once
Procs == {"p1", "p2"}

\* payloads of two user messages with different texts
RacePayloads ==
    { Message(User, "hi", "", <<>>),
      Message(User, Text16, "", <<>>) }

\* a call at rest; pc names the statement a running call executes next
NoCall ==
    [pc |-> "idle", op |-> "", sessionID |-> 0, msg |-> Message("", "", "", <<>>),
     model |-> "", parentID |-> NullInt64, treeID |-> 0, msgID |-> 0,
     title |-> NullString]

\* the call of p returns
Leave(p) == [calls EXCEPT ![p] = NoCall]

\* the call of p moves on with the locals c
Goto(p, c, pc) == [calls EXCEPT ![p] = [c EXCEPT !.pc = pc]]

\* AppendMessage lines 295-299: the SessionExists check
AppendEnter(p) ==
    /\ calls[p].pc = "idle"
    /\ \E sessionID \in SessionIds, msg \in RacePayloads :
        IF ~SessionExists(db, sessionID)
        THEN /\ ret' = Ret("AppendMessage", sessionID, 0, 0, 0, ErrSessionNotFound)
             /\ UNCHANGED calls
        ELSE /\ calls' = Goto(p, [NoCall EXCEPT !.op = "AppendMessage",
                                                !.sessionID = sessionID,
                                                !.msg = msg,
                                                !.model = ModelOf(msg)], "max")
             /\ UNCHANGED ret
    /\ UNCHANGED <<db, idgen, pool, turn, conf, app, rs, hist>>

\* AppendMessage lines 301-303: SELECT MAX(id) of the session
AppendSelectMax(p) ==
    /\ calls[p].pc = "max"
    /\ LET own == MessagesOf(db, calls[p].sessionID)
       IN  calls' = Goto(p, [calls[p] EXCEPT !.parentID =
                                IF own = {} THEN NullInt64
                                ELSE ValidInt64(Max(own))], "insert")
    /\ UNCHANGED <<db, idgen, pool, ret, turn, conf, app, rs, hist>>

\* mutant: the INSERT stores the row under the first session of the table
AppendInsertWrongSession(p) ==
    /\ calls[p].pc = "insert"
    /\ db.sqlite_sequence < MaxMessages
    /\ \E fault \in AppendFaults :
        LET c == calls[p]
            row == MessageRow(Min(DOMAIN db.sessions), c.parentID, c.msg.Role,
                              c.model, Marshal(c.msg))
        IN  IF fault = "insert"
            THEN /\ ret' = Ret("AppendMessage", c.sessionID, 0, 0, 0, ErrInsert)
                 /\ calls' = Leave(p)
                 /\ UNCHANGED db
            ELSE /\ db' = InsertMessage(db, row)
                 /\ calls' = Goto(p, [c EXCEPT !.msgID = db.sqlite_sequence + 1],
                                  "tree")
                 /\ UNCHANGED ret
    /\ hist' = Observe(hist, db')
    /\ UNCHANGED <<idgen, pool, turn, conf, app, rs>>

\* AppendMessage lines 305-328: json.Marshal and the INSERT
AppendInsert(p) ==
    /\ calls[p].pc = "insert"
    /\ db.sqlite_sequence < MaxMessages
    /\ \E fault \in AppendFaults :
        LET c == calls[p]
            row == MessageRow(c.sessionID, c.parentID, c.msg.Role, c.model,
                              Marshal(c.msg))
        IN  IF fault = "insert"
            THEN /\ ret' = Ret("AppendMessage", c.sessionID, 0, 0, 0, ErrInsert)
                 /\ calls' = Leave(p)
                 /\ UNCHANGED db
            ELSE /\ db' = InsertMessage(db, row)
                 /\ calls' = Goto(p, [c EXCEPT !.msgID = db.sqlite_sequence + 1],
                                  "tree")
                 /\ UNCHANGED ret
    /\ hist' = Observe(hist, db')
    /\ UNCHANGED <<idgen, pool, turn, conf, app, rs>>

\* CreateBranchWithMessage lines 157-167: the tree of the parent message
BranchEnter(p) ==
    /\ calls[p].pc = "idle"
    /\ \E parentMsgID \in MessageIds, msg \in RacePayloads :
        LET found == /\ parentMsgID \in DOMAIN db.messages
                     /\ db.messages[parentMsgID].session_id \in DOMAIN db.sessions
        IN  IF ~found
            THEN /\ ret' = Ret("CreateBranchWithMessage", 0, 0, 0, parentMsgID,
                               ErrParentNotFound)
                 /\ UNCHANGED calls
            ELSE /\ calls' = Goto(p, [NoCall EXCEPT
                        !.op = "CreateBranchWithMessage",
                        !.msg = msg,
                        !.parentID = ValidInt64(parentMsgID),
                        !.treeID = db.sessions[db.messages[parentMsgID].session_id]
                                       .tree_id], "branch_session")
                 /\ UNCHANGED ret
    /\ UNCHANGED <<db, idgen, pool, turn, conf, app, rs, hist>>

\* CreateBranchWithMessage lines 169-176: generateID and INSERT INTO sessions
BranchInsertSession(p) ==
    /\ calls[p].pc = "branch_session"
    /\ idgen.session < MaxSessions
    /\ \E fk \in Conns(pool) :
        LET c == calls[p]
            sessionID == idgen.session + 1
        IN  /\ idgen' = [idgen EXCEPT !.session = sessionID]
            /\ IF fk /\ c.treeID \notin DOMAIN db.session_trees
               THEN /\ ret' = Ret("CreateBranchWithMessage", 0, 0, 0,
                                  c.parentID.Int64, ErrCreateBranch)
                    /\ calls' = Leave(p)
                    /\ UNCHANGED db
               ELSE /\ db' = [db EXCEPT !.sessions =
                                 @ @@ (sessionID :> SessionRow(c.treeID, 0))]
                    /\ calls' = Goto(p, [c EXCEPT !.sessionID = sessionID],
                                     "branch_insert")
                    /\ UNCHANGED ret
    /\ UNCHANGED <<pool, turn, conf, app, rs, hist>>

\* CreateBranchWithMessage lines 178-193: json.Marshal and the INSERT
BranchInsertMessage(p) ==
    /\ calls[p].pc = "branch_insert"
    /\ db.sqlite_sequence < MaxMessages
    /\ \E fault \in BranchFaults :
        LET c == calls[p]
            row == MessageRow(c.sessionID, c.parentID, c.msg.Role, "",
                              Marshal(c.msg))
        IN  IF fault = "insert"
            THEN /\ ret' = Ret("CreateBranchWithMessage", 0, 0, 0,
                               c.parentID.Int64, ErrInsert)
                 /\ calls' = Leave(p)
                 /\ UNCHANGED db
            ELSE /\ db' = InsertMessage(db, row)
                 /\ calls' = Goto(p, [c EXCEPT !.msgID = db.sqlite_sequence + 1],
                                  "tree")
                 /\ UNCHANGED ret
    /\ hist' = Observe(hist, db')
    /\ UNCHANGED <<idgen, pool, turn, conf, app, rs>>

\* updateMetadataAfterAppend lines 338-340: SELECT tree_id
MetaSelectTree(p) ==
    /\ calls[p].pc = "tree"
    /\ LET c == calls[p]
       IN  calls' = Goto(p, [c EXCEPT !.treeID =
                                IF c.sessionID \in DOMAIN db.sessions
                                THEN db.sessions[c.sessionID].tree_id ELSE 0],
                         "count")
    /\ UNCHANGED <<db, idgen, pool, ret, turn, conf, app, rs, hist>>

\* updateMetadataAfterAppend lines 342-343: UPDATE sessions SET message_count
MetaCount(p) ==
    /\ calls[p].pc = "count"
    /\ LET c == calls[p]
       IN  /\ db' = IF c.sessionID \in DOMAIN db.sessions
                    THEN [db EXCEPT !.sessions[c.sessionID].message_count = @ + 1]
                    ELSE db
           /\ calls' = Goto(p, c, "title")
    /\ UNCHANGED <<idgen, pool, ret, turn, conf, app, rs, hist>>

\* mutant: the title is written whatever the title read was
WritesTitleUntested(currentTitle, msg) == msg.Role = User /\ msg.Content # ""

\* updateMetadataAfterAppend line 350: the test that guards the title update
WritesTitle(currentTitle, msg) ==
    /\ (~currentTitle.Valid \/ currentTitle.String = "")
    /\ msg.Role = User
    /\ msg.Content # ""

\* updateMetadataAfterAppend lines 345-350: SELECT title and the test on it
MetaSelectTitle(p) ==
    /\ calls[p].pc = "title"
    /\ LET c == calls[p]
           currentTitle == IF c.treeID \in DOMAIN db.session_trees
                           THEN db.session_trees[c.treeID].title ELSE NullString
       IN  calls' = Goto(p, [c EXCEPT !.title = currentTitle],
                         IF WritesTitle(currentTitle, c.msg)
                         THEN "set_title" ELSE "touch")
    /\ UNCHANGED <<db, idgen, pool, ret, turn, conf, app, rs, hist>>

\* updateMetadataAfterAppend lines 351-358: UPDATE session_trees SET title
MetaSetTitle(p) ==
    /\ calls[p].pc = "set_title"
    /\ LET c == calls[p]
       IN  /\ db' = IF c.treeID \in DOMAIN db.session_trees
                    THEN [db EXCEPT !.session_trees[c.treeID].title =
                                        ValidString(newTitle(c.msg.Content))]
                    ELSE db
           /\ calls' = Goto(p, c, "touch")
    /\ UNCHANGED <<idgen, pool, ret, turn, conf, app, rs, hist>>

\* updateMetadataAfterAppend lines 361-362: UPDATE session_trees SET
\* updated_at; the call returns the new id
MetaTouch(p) ==
    /\ calls[p].pc = "touch"
    /\ LET c == calls[p]
       IN  /\ db' = IF c.treeID \in DOMAIN db.session_trees
                    THEN [db EXCEPT !.session_trees[c.treeID].updated_at = Now(db)]
                    ELSE db
           /\ ret' = IF c.op = "AppendMessage"
                     THEN Ret(c.op, c.sessionID, 0, c.msgID, 0, ErrNone)
                     ELSE Ret(c.op, c.sessionID, 0, c.msgID, c.parentID.Int64,
                              ErrNone)
           /\ calls' = Leave(p)
    /\ UNCHANGED <<idgen, pool, turn, conf, app, rs, hist>>

\* no function call: fn names the function, arg its argument, out its
\* result once done
NoApp == [fn |-> "", arg |-> <<>>, out |-> <<>>, done |-> FALSE]

\* a call of fn with arg, not yet made
Apply(fn, arg) == [fn |-> fn, arg |-> arg, out |-> <<>>, done |-> FALSE]

\* the configuration of the running server: the clients it registers
InitConf == [clients |-> {"openai", "gemini"}]

----------------------------------------------------------------------------
(* ClientFactory, the adapters and the capability registry *)

\* unicode.ToLower of one ASCII letter
LowerChar(c) ==
    CASE c = "A" -> "a" [] c = "B" -> "b" [] c = "C" -> "c" [] c = "D" -> "d"
      [] c = "E" -> "e" [] c = "F" -> "f" [] c = "G" -> "g" [] c = "H" -> "h"
      [] c = "I" -> "i" [] c = "J" -> "j" [] c = "K" -> "k" [] c = "L" -> "l"
      [] c = "M" -> "m" [] c = "N" -> "n" [] c = "O" -> "o" [] c = "P" -> "p"
      [] c = "Q" -> "q" [] c = "R" -> "r" [] c = "S" -> "s" [] c = "T" -> "t"
      [] c = "U" -> "u" [] c = "V" -> "v" [] c = "W" -> "w" [] c = "X" -> "x"
      [] c = "Y" -> "y" [] c = "Z" -> "z" [] OTHER -> c

RECURSIVE ToLower(_)
\* strings.ToLower
ToLower(s) ==
    IF s = "" THEN ""
    ELSE LowerChar(SubSeq(s, 1, 1)) \o ToLower(SubSeq(s, 2, Len(s)))

\* strings.HasPrefix
HasPrefix(s, prefix) ==
    Len(s) >= Len(prefix) /\ SubSeq(s, 1, Len(prefix)) = prefix

\* strings.Contains
Contains(s, substr) ==
    \E i \in 1..(Len(s) - Len(substr) + 1) :
        SubSeq(s, i, i + Len(substr) - 1) = substr

\* the hard-coded keywords of each client
clientKeywords ==
    [openai |-> {"gpt", "o1", "o3", "o4", "chatgpt"},
     claude |-> {"claude"},
     ark |-> {"doubao", "ep-"},
     arkbot |-> {"bot-"},
     deepseek |-> {"deepseek"},
     gemini |-> {"gemini"},
     grok |-> {"grok"},
     glm |-> {"glm"},
     kimi |-> {"kimi"},
     minimax |-> {"minimax"},
     ollama |-> {"llama", "gemma", "phi", "mistral", "codellama", "vicuna"},
     openrouter |-> {"openrouter/"},
     qianfan |-> {"ernie", "qianfan"},
     qwen |-> {"qwen"}]

shouldUseResponsesAPI(modelName) ==
    LET modelLower == ToLower(modelName)
    IN  \/ HasPrefix(modelLower, "o1")
        \/ HasPrefix(modelLower, "o3")
        \/ HasPrefix(modelLower, "o4")
        \/ HasPrefix(modelLower, "gpt-5")
        \/ HasPrefix(modelLower, "gpt-6")
        \/ HasPrefix(modelLower, "gpt-7")

\* ResolveClient: the clients the call may return.  The keyword table is a Go
\* map, ranged over in an order that differs from run to run: every
\* registered client with a matching keyword may be the first one met.
ResolveClient(f, modelName, requestClient) ==
    IF requestClient # "" /\ requestClient \in f.clients
    THEN {requestClient}
    ELSE LET modelLower == ToLower(modelName)
             matching == {c \in DOMAIN clientKeywords :
                             /\ c \in f.clients
                             /\ \E keyword \in clientKeywords[c] :
                                    Contains(modelLower, ToLower(keyword))}
         IN  IF matching # {} THEN matching ELSE {"openai"}

\* the clients whose model CreateChatModel wraps when useAdapter is set, and
\* the adapter it wraps it in
Adapters ==
    [openai |-> "OpenAIAdapter", claude |-> "ClaudeAdapter",
     deepseek |-> "DeepSeekAdapter", gemini |-> "GeminiAdapter",
     grok |-> "GrokAdapter"]

\* CreateChatModel without the failures of the constructors it calls: the
\* error of an unregistered client, else the model, which is the raw model
\* of the client or an adapter around it
CreateChatModel(f, clientName, modelName, useAdapter) ==
    IF clientName \notin f.clients
    THEN [err |-> "unknown client: " \o clientName, adapter |-> "", modelName |-> ""]
    ELSE [err |-> ErrNone,
          adapter |->
              IF ~useAdapter THEN ""
              ELSE IF clientName = "openai-response" THEN "OpenAIResponseAdapter"
              ELSE IF clientName = "openai" /\ shouldUseResponsesAPI(modelName)
              THEN "OpenAIResponseAdapter"
              ELSE IF clientName \in DOMAIN Adapters THEN Adapters[clientName]
              ELSE "",
          modelName |-> modelName]

\* the models the built-in registry flags as requiring non-streaming mode
NonStreamingModels == {"gemini-3-pro-image-preview", "gemini-2.5-flash-image"}

\* ModelCapabilityRegistry.RequiresNonStreamingMode (false for unknown models)
RequiresNonStreamingMode(modelName) == modelName \in NonStreamingModels

\* the call chatModel.Stream makes to the underlying backend: only
\* GeminiAdapter.Stream looks the model up and falls back to Generate
StreamCall(chatModel) ==
    IF chatModel.adapter = "GeminiAdapter"
       /\ RequiresNonStreamingMode(chatModel.modelName)
    THEN "Generate"
    ELSE "Stream"

RECURSIVE Split(_, _)
\* strings.Split(s, sep), sep not empty
Split(s, sep) ==
    LET at == {i \in 1..(Len(s) - Len(sep) + 1) :
                  SubSeq(s, i, i + Len(sep) - 1) = sep}
    IN  IF at = {} THEN <<s>>
        ELSE <<SubSeq(s, 1, Min(at) - 1)>>
                 \o Split(SubSeq(s, Min(at) + Len(sep), Len(s)), sep)

IsSpace(c) == c \in {" ", "\n", "\t", "\r"}

RECURSIVE TrimSpace(_)
\* strings.TrimSpace
TrimSpace(s) ==
    IF s = "" THEN ""
    ELSE IF IsSpace(SubSeq(s, 1, 1)) THEN TrimSpace(SubSeq(s, 2, Len(s)))
    ELSE IF IsSpace(SubSeq(s, Len(s), Len(s)))
    THEN TrimSpace(SubSeq(s, 1, Len(s) - 1))
    ELSE s

----------------------------------------------------------------------------
(* ChatUsecase.ChatStream: one streaming turn, step by step *)

\* the errors the callbacks, the model factory and the backend may return
ErrStart == "start callback failed"
ErrChunk == "chunk callback failed"
ErrUnknownClient == "unknown client"
ErrBackend == "backend error"

\* chatError.Error() of wrapError(op, err)
wrapError(op, err) == op \o ": " \o err

defaultModel == "default-model"

systemPrompt == Message(System, "system prompt", "", <<>>)

parseRole(role) ==
    CASE role = "system" -> System
      [] role = "assistant" -> Assistant
      [] role = "tool" -> Tool
      [] OTHER -> User

\* extractMessages: the schema.Message of every entry of a Session
extractMessages(session) == [i \in 1..Len(session) |-> session[i].Message]

\* ChatRequest: Session 0 is the empty session id
ChatRequest(session, role, content, model, client) ==
    [Session |-> session, Role |-> role, Content |-> content, Model |-> model,
     Client |-> client]

Requests ==
    {ChatRequest(s, "user", "hi", m, "") : s \in {0} \cup SessionIds, m \in {"", "m1"}}

\* requests that name a model and may pin a client
ModelRequests ==
    {ChatRequest(0, "user", "hi", m, c) :
        m \in {"gpt-4o", "gemini-2.5-pro", "gemini-2.5-flash-image"},
        c \in {"", "gemini", "claude"}}

\* StreamChunk, and the fields ChatStream reads of a streamed schema.Message
StreamChunk(content, reasoning, multi) ==
    [Content |-> content, ReasoningContent |-> reasoning,
     AssistantGenMultiContent |-> multi]

\* the events a backend stream may deliver
StreamEvents ==
    { StreamChunk("", "", <<>>),
      StreamChunk("He", "", <<>>),
      StreamChunk("llo", "", <<>>),
      StreamChunk("", "th", <<>>),
      StreamChunk("", "", <<"img">>),
      StreamChunk("llo", "th", <<"img", "wav">>) }

\* the complete messages a backend's Generate may return
Responses ==
    { Message(Assistant, "Hello", "", <<>>),
      Message(Assistant, "", "", <<>>),
      Message(Assistant, "Hello", "a\n\n b", <<"img">>) }

\* mutant: the text goes out before the reasoning, and a response without
\* content yields no event
splitResponseTextFirst(resp) ==
    LET paragraphs == Split(resp.ReasoningContent, "\n\n")
        reasoning == IF resp.ReasoningContent = "" THEN <<>>
                     ELSE [i \in 1..Len(paragraphs) |->
                             StreamChunk("", paragraphs[i] \o "\n", <<>>)]
        content == IF resp.Content = "" THEN <<>>
                   ELSE <<StreamChunk(resp.Content, "", <<>>)>>
        multi == IF Len(resp.AssistantGenMultiContent) = 0 THEN <<>>
                 ELSE <<StreamChunk("", "", resp.AssistantGenMultiContent)>>
    IN  content \o reasoning \o multi

\* splitResponseToChunks: the chunks of the simulated stream
splitResponseToChunks(resp) ==
    LET byBlank == Split(resp.ReasoningContent, "\n\n")
        paragraphs == IF Len(byBlank) <= 1
                      THEN Split(resp.ReasoningContent, "\n") ELSE byBlank
        trimmed == [i \in 1..Len(paragraphs) |-> TrimSpace(paragraphs[i])]
        reasoning == IF resp.ReasoningContent = "" THEN <<>>
                     ELSE [i \in 1..Len(SelectSeq(trimmed, LAMBDA x : x # "")) |->
                             StreamChunk("", SelectSeq(trimmed,
                                                 LAMBDA x : x # "")[i] \o "\n",
                                         <<>>)]
        content == IF resp.Content = "" THEN <<>>
                   ELSE <<StreamChunk(resp.Content, "", <<>>)>>
        multi == IF Len(resp.AssistantGenMultiContent) = 0 THEN <<>>
                 ELSE <<StreamChunk("", "", resp.AssistantGenMultiContent)>>
        chunks == reasoning \o content \o multi
    IN  IF Len(chunks) = 0 THEN <<StreamChunk("", "", <<>>)>> ELSE chunks

\* mutant: onChunk is called for text only
HasContentTextOnly(chunk) == chunk.Content # ""

\* the condition under which onChunk is called
HasContent(chunk) ==
    \/ chunk.Content # ""
    \/ chunk.ReasoningContent # ""
    \/ Len(chunk.AssistantGenMultiContent) > 0

\* an event written to the HTTP response
SSE(event, data) == [event |-> event, data |-> data]

\* the event name sendStreamChunk gives to an output part, "" for a text part
PartEvent(part) ==
    CASE part = "txt" -> ""
      [] part = "img" -> "image"
      [] part = "wav" -> "audio"
      [] part = "mp4" -> "video"
      [] OTHER -> "multimodal"

\* sendStreamChunk: the events written for one chunk
sendStreamChunk(chunk) ==
    LET parts == SelectSeq(chunk.AssistantGenMultiContent,
                           LAMBDA part : PartEvent(part) # "")
    IN  (IF chunk.ReasoningContent # ""
         THEN <<SSE("reasoning", chunk.ReasoningContent)>> ELSE <<>>)
        \o (IF chunk.Content # ""
            THEN <<SSE("content", chunk.Content)>> ELSE <<>>)
        \o [i \in 1..Len(parts) |-> SSE(PartEvent(parts[i]), parts[i])]

\* the callbacks of a turn: those of the HTTP handler, which always return
\* nil, or those of any other caller of the use case
Callers == {"handler", "usecase"}

CallbackErrors(t) == IF t.caller = "handler" THEN {FALSE} ELSE BOOLEAN

\* turn.pc: "idle", "resolved" (line 253), "started" (line 258), "ready"
\* (line 307), "streaming" (line 322), "generated" (line 200 of Chat), "done"
\* (returned).  turn.kind is "stream" (ChatStream) or "chat" (Chat).
\* turn.exit names the return statement taken and turn.err the error
\* returned.  turn.base (messages.id before the turn), turn.userMsgID,
\* turn.events (what Recv delivered), turn.chunks (what onChunk was called
\* with), turn.starts (calls of onStart), turn.calls (calls made to the model
\* factory and the chat model), turn.raw (calls that reached the underlying
\* backend) and turn.sse (events the handler wrote) record what the turn did.
\* turn.source is "live" for a backend stream and "array" for the simulated
\* one, whose chunks not yet read are turn.pending.  turn.out is the
\* ChatResponse Chat returned.
NoTurn ==
    [pc |-> "idle", kind |-> "stream", caller |-> "usecase",
     req |-> ChatRequest(0, "", "", "", ""), treeID |-> 0,
     sessionID |-> 0, isNew |-> FALSE, base |-> 0, userMsgID |-> 0,
     messages |-> <<>>, modelName |-> "", client |-> "", adapter |-> "",
     useAdapter |-> FALSE, source |-> "live", pending |-> <<>>, resp |-> Message("", "", "", <<>>),
     events |-> <<>>, chunks |-> <<>>,
     starts |-> 0, calls |-> <<>>, raw |-> <<>>, sse |-> <<>>,
     finished |-> FALSE, fullContent |-> "", fullReasoning |-> "",
     multiContent |-> <<>>, out |-> ChatResponse(Message("", "", "", <<>>), ""),
     exit |-> "", err |-> ErrNone]

Return(t, exit, err) == [t EXCEPT !.pc = "done", !.exit = exit, !.err = err]

\* a turn may begin: none is running, and the handler of the last one is done
TurnIdle ==
    /\ turn.pc \in {"idle", "done"}
    /\ (turn.pc = "done" /\ turn.caller = "handler") => turn.finished

\* lines 237-251: session validation or creation
TurnResolveFrom(requests, callers) ==
    /\ TurnIdle
    /\ db.sqlite_sequence + 2 <= MaxMessages
    /\ \E req \in requests, caller \in callers :
        LET t0 == [NoTurn EXCEPT !.req = req, !.base = db.sqlite_sequence,
                                 !.caller = caller]
        IN  IF req.Session = 0
            THEN /\ idgen.tree < MaxTrees
                 /\ idgen.session < MaxSessions
                 /\ db' = NewConversation(db, Now(db), idgen.tree + 1,
                                          idgen.session + 1)
                 /\ idgen' = [tree |-> idgen.tree + 1,
                              session |-> idgen.session + 1]
                 /\ ret' = Ret("NewConversation", idgen.session + 1,
                               idgen.tree + 1, 0, 0, ErrNone)
                 /\ turn' = [t0 EXCEPT !.pc = "resolved",
                                       !.treeID = idgen.tree + 1,
                                       !.sessionID = idgen.session + 1,
                                       !.isNew = TRUE]
            ELSE LET r == GetTreeID(db, req.Session)
                 IN  /\ turn' = IF r.err # ErrNone
                                THEN Return([t0 EXCEPT !.sessionID = req.Session],
                                            "session",
                                            "session not found: "
                                                \o ToString(req.Session))
                                ELSE [t0 EXCEPT !.pc = "resolved",
                                                !.treeID = r.treeID,
                                                !.sessionID = req.Session]
                     /\ ret' = Ret("GetTreeID", req.Session, r.treeID, 0, 0, r.err)
                     /\ UNCHANGED <<db, idgen>>
    /\ UNCHANGED pool
    /\ hist' = Observe(hist, db')
    /\ UNCHANGED elsewhere

\* ChatStream called by a caller of the use case
TurnResolve == TurnResolveFrom(Requests, {"usecase"})

\* ChatStream called by the HTTP handler (api/chat.go line 54)
HandlerChat == TurnResolveFrom(Requests, {"handler"})

\* ChatStream called for a named model, with or without a pinned client
TurnResolveModel == TurnResolveFrom(ModelRequests, {"usecase"})

\* mutant: the turn goes on without having called onStart
TurnStartDeferred ==
    /\ turn.pc = "resolved"
    /\ turn' = [turn EXCEPT !.pc = "started"]
    /\ UNCHANGED <<db, idgen, pool, ret>>
    /\ hist' = Observe(hist, db')
    /\ UNCHANGED elsewhere

\* lines 253-256: onStart(StreamMetaInfo{treeID, sessionID, isNew}); the
\* handler's onStart writes the info event
TurnStart ==
    /\ turn.pc = "resolved"
    /\ \E failed \in CallbackErrors(turn) :
        LET t1 == [turn EXCEPT
                     !.starts = @ + 1,
                     !.sse = IF turn.caller = "handler"
                             THEN @ \o <<SSE("info", ToString(turn.sessionID))>>
                             ELSE @]
        IN  turn' = IF failed THEN Return(t1, "start", ErrStart)
                    ELSE [t1 EXCEPT !.pc = "started"]
    /\ UNCHANGED <<db, idgen, pool, ret>>
    /\ hist' = Observe(hist, db')
    /\ UNCHANGED elsewhere

\* mutant: the turn goes on although the user message could not be appended
TurnAppendUserUnchecked ==
    /\ turn.pc = "started"
    /\ \E fault \in AppendFaults :
        LET userMsg == Message(parseRole(turn.req.Role), turn.req.Content, "", <<>>)
            r == AppendMessage(db, Now(db), turn.sessionID, userMsg, "", fault)
            session == GetSessionMessages(r.db, turn.sessionID)
        IN  /\ db' = r.db
            /\ ret' = Ret("AppendMessage", turn.sessionID, 0, r.id, 0, r.err)
            /\ turn' = [turn EXCEPT
                          !.pc = "ready",
                          !.userMsgID = r.id,
                          !.messages = <<systemPrompt>> \o extractMessages(session),
                          !.modelName = IF turn.req.Model = "" THEN defaultModel
                                        ELSE turn.req.Model]
    /\ UNCHANGED <<idgen, pool>>
    /\ hist' = Observe(hist, db')
    /\ UNCHANGED elsewhere

\* lines 258-294: the user message is appended, the history is read back
\* and the model name is chosen
TurnAppendUser ==
    /\ turn.pc = "started"
    /\ \E fault \in AppendFaults :
        LET userMsg == Message(parseRole(turn.req.Role), turn.req.Content, "", <<>>)
            r == AppendMessage(db, Now(db), turn.sessionID, userMsg, "", fault)
            session == GetSessionMessages(r.db, turn.sessionID)
        IN  /\ db' = r.db
            /\ ret' = Ret("AppendMessage", turn.sessionID, 0, r.id, 0, r.err)
            /\ turn' =
                IF r.err # ErrNone THEN Return(turn, "append_user",
                                               wrapError("append user message", r.err))
                ELSE IF session = <<>>
                THEN Return([turn EXCEPT !.userMsgID = r.id], "get_session",
                            wrapError("get session", ErrSessionNotFound))
                ELSE [turn EXCEPT
                        !.pc = "ready",
                        !.userMsgID = r.id,
                        !.messages = <<systemPrompt>> \o extractMessages(session),
                        !.modelName = IF turn.req.Model = "" THEN defaultModel
                                      ELSE turn.req.Model]
    /\ UNCHANGED <<idgen, pool>>
    /\ hist' = Observe(hist, db')
    /\ UNCHANGED elsewhere

\* lines 258-275 alone: the user message is appended; the turn then stands
\* before its GetSessionMessages call, and calls of other requests may run
TurnAppendMessage ==
    /\ turn.pc = "started"
    /\ \E fault \in AppendFaults :
        LET userMsg == Message(parseRole(turn.req.Role), turn.req.Content, "", <<>>)
            r == AppendMessage(db, Now(db), turn.sessionID, userMsg, "", fault)
        IN  /\ db' = r.db
            /\ ret' = Ret("AppendMessage", turn.sessionID, 0, r.id, 0, r.err)
            /\ turn' =
                IF r.err # ErrNone THEN Return(turn, "append_user",
                                               wrapError("append user message", r.err))
                ELSE [turn EXCEPT !.pc = "appended", !.userMsgID = r.id]
    /\ UNCHANGED <<idgen, pool>>
    /\ hist' = Observe(hist, db')
    /\ UNCHANGED elsewhere

\* lines 277-294 alone: the history is read back from the store as it is at
\* that time, and the model name is chosen
TurnGetSessionMessages ==
    /\ turn.pc = "appended"
    /\ LET session == GetSessionMessages(db, turn.sessionID)
       IN  turn' =
               IF session = <<>>
               THEN Return(turn, "get_session",
                           wrapError("get session", ErrSessionNotFound))
               ELSE [turn EXCEPT
                       !.pc = "ready",
                       !.messages = <<systemPrompt>> \o extractMessages(session),
                       !.modelName = IF turn.req.Model = "" THEN defaultModel
                                     ELSE turn.req.Model]
    /\ UNCHANGED <<db, idgen, pool, ret>>
    /\ hist' = Observe(hist, db')
    /\ UNCHANGED elsewhere

\* lines 186 and 301: the adapter is used only when the client was not pinned
UseAdapter(req) == req.Client = ""

\* the outcomes of the model's constructor and of the backend call
DispatchOutcomes == {"ok", "create", "backend"}

\* lines 296-314: ResolveClient, CreateChatModel and chatModel.Stream; the
\* constructors and the backend decide the outcome.  A simulated stream is
\* built from the response of the one Generate call the fallback makes.
TurnDispatch ==
    /\ turn.pc = "ready"
    /\ turn.kind = "stream"
    /\ \E clientName \in ResolveClient(conf, turn.modelName, turn.req.Client),
          outcome \in DispatchOutcomes, resp \in Responses :
        LET chatModel == CreateChatModel(conf, clientName, turn.modelName,
                                         UseAdapter(turn.req))
            t1 == [turn EXCEPT !.calls = @ \o <<"CreateChatModel">>,
                               !.client = clientName,
                               !.useAdapter = UseAdapter(turn.req)]
            t2 == [t1 EXCEPT !.calls = @ \o <<"Stream">>,
                             !.adapter = chatModel.adapter,
                             !.raw = @ \o <<StreamCall(chatModel)>>]
        IN  turn' =
                IF chatModel.err # ErrNone
                THEN Return(t1, "create",
                            wrapError("create chat model", chatModel.err))
                ELSE IF outcome = "create"
                THEN Return(t1, "create",
                            wrapError("create chat model", ErrUnknownClient))
                ELSE IF outcome = "backend"
                THEN Return(t2, "stream", wrapError("stream response", ErrBackend))
                ELSE IF StreamCall(chatModel) = "Generate"
                THEN [t2 EXCEPT !.pc = "streaming", !.source = "array",
                                !.resp = resp,
                                !.pending = splitResponseToChunks(resp)]
                ELSE [t2 EXCEPT !.pc = "streaming", !.source = "live"]
    /\ UNCHANGED <<db, idgen, pool, ret>>
    /\ hist' = Observe(hist, db')
    /\ UNCHANGED elsewhere

\* what an event adds to the accumulators
Accumulate(t, chunk) ==
    [t EXCEPT
       !.calls = @ \o <<"Recv">>,
       !.events = @ \o <<chunk>>,
       !.pending = IF t.source = "array" THEN Tail(@) ELSE @,
       !.fullReasoning = IF chunk.ReasoningContent # ""
                         THEN @ \o chunk.ReasoningContent ELSE @,
       !.fullContent = IF chunk.Content # ""
                       THEN @ \o chunk.Content ELSE @,
       !.multiContent = IF Len(chunk.AssistantGenMultiContent) > 0
                        THEN @ \o chunk.AssistantGenMultiContent
                        ELSE @]

\* what Recv may deliver next: anything from a backend stream, up to the
\* bound, and the next chunk of a simulated one
NextEvents(t) ==
    IF t.source = "array"
    THEN (IF t.pending = <<>> THEN {} ELSE {Head(t.pending)})
    ELSE (IF Len(t.events) < MaxEvents THEN StreamEvents ELSE {})

\* mutant: what has been accumulated is appended as each event arrives
TurnRecvChunkPersisting ==
    /\ turn.pc = "streaming"
    /\ \E chunk \in NextEvents(turn) :
        LET t1 == Accumulate(turn, chunk)
            partial == Message(Assistant, t1.fullContent, t1.fullReasoning,
                               t1.multiContent)
            r == AppendMessage(db, Now(db), turn.sessionID, partial,
                               turn.modelName, "none")
        IN  /\ db' = r.db
            /\ ret' = Ret("AppendMessage", turn.sessionID, 0, r.id, 0, r.err)
            /\ turn' = IF HasContent(chunk)
                       THEN [t1 EXCEPT !.chunks = @ \o <<chunk>>] ELSE t1
    /\ UNCHANGED <<idgen, pool>>
    /\ hist' = Observe(hist, db')
    /\ UNCHANGED elsewhere

\* lines 323-356: Recv delivers an event; it is folded into the accumulators
\* and, if it has content, handed to onChunk; the handler's onChunk writes
\* the chunk's events
TurnRecvChunk ==
    /\ turn.pc = "streaming"
    /\ \E chunk \in NextEvents(turn), cbErr \in CallbackErrors(turn) :
        LET t1 == Accumulate(turn, chunk)
            t2 == [t1 EXCEPT !.chunks = @ \o <<chunk>>,
                             !.sse = IF turn.caller = "handler"
                                     THEN @ \o sendStreamChunk(chunk) ELSE @]
        IN  turn' = IF ~HasContent(chunk) THEN t1
                    ELSE IF cbErr THEN Return(t2, "chunk", ErrChunk)
                    ELSE t2
    /\ UNCHANGED <<db, idgen, pool, ret>>
    /\ hist' = Observe(hist, db')
    /\ UNCHANGED elsewhere

\* mutant: what has been accumulated is appended before the error is returned
TurnRecvErrorPersisting ==
    /\ turn.pc = "streaming"
    /\ turn.source = "live"
    /\ LET partial == Message(Assistant, turn.fullContent, turn.fullReasoning,
                              turn.multiContent)
           r == AppendMessage(db, Now(db), turn.sessionID, partial,
                              turn.modelName, "none")
       IN  /\ db' = r.db
           /\ ret' = Ret("AppendMessage", turn.sessionID, 0, r.id, 0, r.err)
    /\ turn' = Return([turn EXCEPT !.calls = @ \o <<"Recv">>], "recv",
                    wrapError("recv stream", ErrBackend))
    /\ UNCHANGED <<idgen, pool>>
    /\ hist' = Observe(hist, db')
    /\ UNCHANGED elsewhere

\* lines 323-329: Recv of a backend stream returns an error other than io.EOF
TurnRecvError ==
    /\ turn.pc = "streaming"
    /\ turn.source = "live"
    /\ turn' = Return([turn EXCEPT !.calls = @ \o <<"Recv">>], "recv",
                    wrapError("recv stream", ErrBackend))
    /\ UNCHANGED <<db, idgen, pool, ret>>
    /\ hist' = Observe(hist, db')
    /\ UNCHANGED elsewhere

\* mutant: the turn ends without error although the final append failed
EndOfStreamIgnoringAppend(t, err) == Return(t, "ok", ErrNone)

\* lines 365-369: how the turn ends after the final append
EndOfStream(t, err) ==
    IF err # ErrNone
    THEN Return(t, "append_assistant", wrapError("append assistant message", err))
    ELSE Return(t, "ok", ErrNone)

\* lines 325-326 and 358-369: Recv returns io.EOF (a simulated stream after
\* its last chunk); the assistant message is built from the accumulators and
\* appended
TurnRecvEOF ==
    /\ turn.pc = "streaming"
    /\ turn.source = "array" => turn.pending = <<>>
    /\ \E fault \in AppendFaults :
        LET assistantMsg == Message(Assistant, turn.fullContent,
                                    turn.fullReasoning, turn.multiContent)
            r == AppendMessage(db, Now(db), turn.sessionID, assistantMsg,
                               turn.modelName, fault)
            t1 == [turn EXCEPT !.calls = @ \o <<"Recv">>]
        IN  /\ db' = r.db
            /\ ret' = Ret("AppendMessage", turn.sessionID, 0, r.id, 0, r.err)
            /\ turn' = EndOfStream(t1, r.err)
    /\ UNCHANGED <<idgen, pool>>
    /\ hist' = Observe(hist, db')
    /\ UNCHANGED elsewhere

\* mutant: the handler writes the done event whatever ChatStream returned
HandlerFinishAlwaysDone ==
    /\ turn.pc = "done"
    /\ turn.kind = "stream"
    /\ turn.caller = "handler"
    /\ ~turn.finished
    /\ turn' = [turn EXCEPT !.finished = TRUE,
                            !.sse = @ \o <<SSE("done", "[DONE]")>>]
    /\ UNCHANGED <<db, idgen, pool, ret>>
    /\ hist' = Observe(hist, db')
    /\ UNCHANGED elsewhere

\* api/chat.go lines 73-88: after ChatStream has returned, the handler writes
\* the error event or the done event
HandlerFinish ==
    /\ turn.pc = "done"
    /\ turn.kind = "stream"
    /\ turn.caller = "handler"
    /\ ~turn.finished
    /\ turn' = [turn EXCEPT
                  !.finished = TRUE,
                  !.sse = @ \o
                      <<IF turn.err # ErrNone
                        THEN IF Contains(turn.err, "session not found")
                             THEN SSE("error", "invalid_session")
                             ELSE SSE("error", turn.err)
                        ELSE SSE("done", "[DONE]")>>]
    /\ UNCHANGED <<db, idgen, pool, ret>>
    /\ hist' = Observe(hist, db')
    /\ UNCHANGED elsewhere

----------------------------------------------------------------------------
(* ChatUsecase.Chat: one non-streaming turn, step by step *)

\* lines 146-179: the user message is appended to the session the request
\* names, the history is read back and the model name is chosen
ChatAppendUser ==
    /\ TurnIdle
    /\ db.sqlite_sequence + 2 <= MaxMessages
    /\ \E req \in Requests, fault \in AppendFaults :
        LET t0 == [NoTurn EXCEPT !.kind = "chat", !.req = req,
                                 !.base = db.sqlite_sequence,
                                 !.sessionID = req.Session]
            userMsg == Message(parseRole(req.Role), req.Content, "", <<>>)
            r == AppendMessage(db, Now(db), req.Session, userMsg, "", fault)
            session == GetSessionMessages(r.db, req.Session)
        IN  /\ db' = r.db
            /\ ret' = Ret("AppendMessage", req.Session, 0, r.id, 0, r.err)
            /\ turn' =
                IF r.err # ErrNone
                THEN Return(t0, "append_user",
                            wrapError("append user message", r.err))
                ELSE IF session = <<>>
                THEN Return([t0 EXCEPT !.userMsgID = r.id], "get_session",
                            wrapError("get session", ErrSessionNotFound))
                ELSE [t0 EXCEPT
                        !.pc = "ready",
                        !.userMsgID = r.id,
                        !.messages = extractMessages(session),
                        !.modelName = IF req.Model = "" THEN defaultModel
                                      ELSE req.Model]
    /\ UNCHANGED <<idgen, pool>>
    /\ hist' = Observe(hist, db')
    /\ UNCHANGED elsewhere

\* mutant: a failed Generate is tried once more
GenerateRetrying(t, outcome, resp) ==
    LET t3 == [t EXCEPT !.calls = @ \o <<"Generate", "Generate">>,
                        !.raw = @ \o <<"Generate", "Generate">>]
    IN  [t3 EXCEPT !.pc = "generated", !.resp = resp]

\* lines 192-198: chatModel.Generate, once
Generate(t, outcome, resp) ==
    LET t3 == [t EXCEPT !.calls = @ \o <<"Generate">>,
                        !.raw = @ \o <<"Generate">>]
    IN  IF outcome = "backend"
        THEN Return(t3, "generate", wrapError("generate response", ErrBackend))
        ELSE [t3 EXCEPT !.pc = "generated", !.resp = resp]

\* lines 181-198: ResolveClient, CreateChatModel and chatModel.Generate
ChatGenerate ==
    /\ turn.pc = "ready"
    /\ turn.kind = "chat"
    /\ \E clientName \in ResolveClient(conf, turn.modelName, turn.req.Client),
          outcome \in DispatchOutcomes, resp \in Responses :
        LET chatModel == CreateChatModel(conf, clientName, turn.modelName,
                                         UseAdapter(turn.req))
            t1 == [turn EXCEPT !.calls = @ \o <<"CreateChatModel">>,
                               !.client = clientName,
                               !.useAdapter = UseAdapter(turn.req)]
            t2 == [t1 EXCEPT !.adapter = chatModel.adapter]
        IN  turn' =
                IF chatModel.err # ErrNone
                THEN Return(t1, "create",
                            wrapError("create chat model", chatModel.err))
                ELSE IF outcome = "create"
                THEN Return(t1, "create",
                            wrapError("create chat model", ErrUnknownClient))
                ELSE Generate(t2, outcome, resp)
    /\ UNCHANGED <<db, idgen, pool, ret>>
    /\ hist' = Observe(hist, db')
    /\ UNCHANGED elsewhere

\* lines 200-205: the response is appended, tagged with the model name, and
\* returned
ChatPersist ==
    /\ turn.pc = "generated"
    /\ \E fault \in AppendFaults :
        LET r == AppendMessage(db, Now(db), turn.req.Session, turn.resp,
                               turn.modelName, fault)
        IN  /\ db' = r.db
            /\ ret' = Ret("AppendMessage", turn.req.Session, 0, r.id, 0, r.err)
            /\ turn' = IF r.err # ErrNone
                       THEN Return(turn, "append_assistant",
                                   wrapError("append assistant message", r.err))
                       ELSE Return([turn EXCEPT
                                      !.out = ChatResponse(turn.resp,
                                                           turn.modelName)],
                                   "ok", ErrNone)
    /\ UNCHANGED <<idgen, pool>>
    /\ hist' = Observe(hist, db')
    /\ UNCHANGED elsewhere

----------------------------------------------------------------------------
(* Client.Stream of the Responses-API client: the watcher, the receive     *)
(* loop, the pipe between the loop and the consumer, and the backend       *)

\* what the backend may put on the connection: the events of two messages,
\* the end of the stream and a broken connection
WireMessages == {"a", "b"}
WireEvents == WireMessages \cup {"eof", "err"}

\* rs.pc: "idle" (Stream not called), "failed" (Stream returned an error),
\* "running" (Stream returned the output stream).  rs.ctx is the caller's
\* context, rs.body the response body, rs.inbox what the backend has sent
\* and reader.Recv has not yet returned, rs.ended whether the backend has
\* sent its last event.  rs.watcher: "none", "select" (line 170), "done".
\* rs.loop: "none", "recv" (line 189), "send" (line 205), "senderr"
\* (line 200), "exit" (returning, line 181), "done"; rs.item is what the loop
\* is about to send.  rs.items is the buffer of the pipe, rs.recvClosed is
\* set by the consumer's Close and rs.sendClosed by sw.Close().  rs.readDone
\* counts close(readDone).  rs.consumer: "idle", "recv" (in Recv), "eof"
\* (Recv returned io.EOF or an error), "closed".  rs.got is what Recv
\* returned last.  rs.aborted records that the loop returned at line 197,
\* on an error of the read with the context cancelled.
NoStream ==
    [pc |-> "idle", ctx |-> "live", body |-> "none", inbox |-> <<>>,
     sent |-> 0, ended |-> FALSE, watcher |-> "none", loop |-> "none",
     item |-> "", items |-> <<>>, recvClosed |-> FALSE, sendClosed |-> FALSE,
     readDone |-> 0, consumer |-> "idle", got |-> "", aborted |-> FALSE]

\* the capacity of schema.Pipe(1)
PipeCap == 1

\* lines 114-234: the request is sent; on a streaming response the pipe is
\* made and both goroutines are started
ClientStream ==
    /\ rs.pc = "idle"
    /\ \E ok \in BOOLEAN :
        rs' = IF ok
              THEN [rs EXCEPT !.pc = "running", !.body = "open",
                              !.watcher = "select", !.loop = "recv"]
              ELSE [rs EXCEPT !.pc = "failed"]
    /\ UNCHANGED <<db, idgen, pool, ret, turn, calls, conf, app, hist>>

\* the caller cancels the context
CtxCancel ==
    /\ rs.pc = "running"
    /\ rs.ctx = "live"
    /\ rs' = [rs EXCEPT !.ctx = "cancelled"]
    /\ UNCHANGED <<db, idgen, pool, ret, turn, calls, conf, app, hist>>

\* the backend sends an event, ends the stream or breaks the connection
BackendEvent ==
    /\ rs.pc = "running"
    /\ rs.body = "open"
    /\ ~rs.ended
    /\ rs.sent < MaxWire
    /\ \E e \in WireEvents :
        rs' = [rs EXCEPT !.inbox = @ \o <<e>>, !.sent = @ + 1,
                         !.ended = e \in {"eof", "err"}]
    /\ UNCHANGED <<db, idgen, pool, ret, turn, calls, conf, app, hist>>

\* mutant: on cancellation the watcher returns without closing the body
WatcherCancelNoClose ==
    /\ rs.watcher = "select"
    /\ rs.ctx = "cancelled"
    /\ rs' = [rs EXCEPT !.watcher = "done"]
    /\ UNCHANGED <<db, idgen, pool, ret, turn, calls, conf, app, hist>>

\* lines 171-173: case <-ctx.Done(): resp.Body.Close()
WatcherCancel ==
    /\ rs.watcher = "select"
    /\ rs.ctx = "cancelled"
    /\ rs' = [rs EXCEPT !.watcher = "done", !.body = "closed"]
    /\ UNCHANGED <<db, idgen, pool, ret, turn, calls, conf, app, hist>>

\* lines 174-175: case <-readDone
WatcherReadDone ==
    /\ rs.watcher = "select"
    /\ rs.readDone > 0
    /\ rs' = [rs EXCEPT !.watcher = "done"]
    /\ UNCHANGED <<db, idgen, pool, ret, turn, calls, conf, app, hist>>

\* what the loop does with an error of reader.Recv (lines 190-202)
AfterRecvError(r, e) ==
    IF e = "eof" THEN [r EXCEPT !.loop = "exit"]
    ELSE IF r.ctx = "cancelled"
    THEN [r EXCEPT !.loop = "exit", !.aborted = TRUE]
    ELSE [r EXCEPT !.loop = "senderr", !.item = "err"]

\* lines 189-203: reader.Recv() returns.  It returns what the backend sent,
\* in order; on a closed body it fails, also when events were sent that it
\* had not read into its buffer.  It blocks on an open body with nothing to
\* read.
LoopRecv ==
    /\ rs.loop = "recv"
    /\ \/ /\ rs.inbox # <<>>
          /\ LET e == Head(rs.inbox)
                 r == [rs EXCEPT !.inbox = Tail(@)]
             IN  rs' = IF e \in WireMessages
                       THEN [r EXCEPT !.loop = "send", !.item = e]
                       ELSE AfterRecvError(r, e)
       \/ /\ rs.body = "closed"
          /\ rs' = AfterRecvError([rs EXCEPT !.inbox = <<>>], "err")
    /\ UNCHANGED <<db, idgen, pool, ret, turn, calls, conf, app, hist>>

\* sw.Send of the pipe: it returns true when the consumer has closed the
\* stream, puts the item into the buffer when there is room, and blocks
\* otherwise
SendEnabled(r) == r.recvClosed \/ Len(r.items) < PipeCap

\* lines 204-212: closed := sw.Send(msg, nil); if closed, return
LoopSend ==
    /\ rs.loop = "send"
    /\ SendEnabled(rs)
    /\ rs' = IF rs.recvClosed THEN [rs EXCEPT !.loop = "exit"]
             ELSE [rs EXCEPT !.items = @ \o <<rs.item>>, !.loop = "recv"]
    /\ UNCHANGED <<db, idgen, pool, ret, turn, calls, conf, app, hist>>

\* lines 199-201: sw.Send(nil, recvErr); return
LoopSendErr ==
    /\ rs.loop = "senderr"
    /\ SendEnabled(rs)
    /\ rs' = IF rs.recvClosed THEN [rs EXCEPT !.loop = "exit"]
             ELSE [rs EXCEPT !.items = @ \o <<rs.item>>, !.loop = "exit"]
    /\ UNCHANGED <<db, idgen, pool, ret, turn, calls, conf, app, hist>>

\* mutant: the loop returns without closing readDone
LoopExitNoSignal ==
    /\ rs.loop = "exit"
    /\ rs' = [rs EXCEPT !.loop = "done", !.body = "closed",
                        !.sendClosed = TRUE]
    /\ UNCHANGED <<db, idgen, pool, ret, turn, calls, conf, app, hist>>

\* lines 181-186: the deferred function of the loop
LoopExit ==
    /\ rs.loop = "exit"
    /\ rs' = [rs EXCEPT !.loop = "done", !.readDone = @ + 1,
                        !.body = "closed", !.sendClosed = TRUE]
    /\ UNCHANGED <<db, idgen, pool, ret, turn, calls, conf, app, hist>>

\* the consumer calls Recv on the output stream
ConsumerRecv ==
    /\ rs.pc = "running"
    /\ rs.consumer = "idle"
    /\ rs' = [rs EXCEPT !.consumer = "recv"]
    /\ UNCHANGED <<db, idgen, pool, ret, turn, calls, conf, app, hist>>

\* the consumer's Recv returns: the next item of the buffer, or io.EOF when
\* the buffer is empty and sw.Close() was called
ConsumerRecvReturn ==
    /\ rs.consumer = "recv"
    /\ \/ /\ rs.items # <<>>
          /\ rs' = [rs EXCEPT !.items = Tail(@), !.got = Head(rs.items),
                              !.consumer = IF Head(rs.items) = "err"
                                           THEN "eof" ELSE "idle"]
       \/ /\ rs.items = <<>>
          /\ rs.sendClosed
          /\ rs' = [rs EXCEPT !.got = "eof", !.consumer = "eof"]
    /\ UNCHANGED <<db, idgen, pool, ret, turn, calls, conf, app, hist>>

\* the consumer closes the output stream
ConsumerClose ==
    /\ rs.pc = "running"
    /\ rs.consumer \in {"idle", "eof"}
    /\ rs' = [rs EXCEPT !.consumer = "closed", !.recvClosed = TRUE]
    /\ UNCHANGED <<db, idgen, pool, ret, turn, calls, conf, app, hist>>

\* the server after construction, before any request
InitServer ==
    /\ db = EmptyDB
    /\ idgen = [tree |-> 0, session |-> 0]
    /\ pool = InitPool
    /\ ret = Ret("", 0, 0, 0, 0, ErrNone)
    /\ turn = NoTurn
    /\ calls = [p \in Procs |-> NoCall]
    /\ rs = NoStream
    /\ hist = [ids |-> {}]

Init ==
    /\ InitServer
    /\ conf = InitConf
    /\ app = NoApp

----------------------------------------------------------------------------
(* Calls of the functions of the adapters and of the factory *)

\* reasoning texts: none, one paragraph, paragraphs parted by blank lines or
\* by single line breaks, blank paragraphs, surrounding blanks
ReasoningTexts ==
    {"", "a", "a\n\nb", "a\nb", "\n\n", " a \n\n\n\n b", "a\n\nb\nc",
     "  ", "a\n\n"}

\* the complete responses handed to splitResponseToChunks
FullResponses ==
    {Message(Assistant, c, r, m) :
        c \in {"", "Hello", " "}, r \in ReasoningTexts,
        m \in {<<>>, <<"img">>, <<"img", "wav">>}}

\* createSimulatedStreamReader: chunks := splitResponseToChunks(resp)
CallSplit ==
    /\ app.fn = "splitResponseToChunks"
    /\ ~app.done
    /\ app' = [app EXCEPT !.out = splitResponseToChunks(app.arg), !.done = TRUE]
    /\ UNCHANGED <<db, idgen, pool, ret, turn, calls, conf, rs, hist>>

InitSplit ==
    /\ InitServer
    /\ conf = InitConf
    /\ app \in {Apply("splitResponseToChunks", resp) : resp \in FullResponses}

\* splitResponseToChunks on each of the responses
SpecSplit == InitSplit /\ [][CallSplit]_vars

\* the model names and the client names of requests
ModelNames ==
    {"", "gpt-4o-mini", "GPT-4", "claude-x", "unknown-model",
     "openrouter/gpt-4o", "deepseek-r1-distill-llama", "gemini-2.5-pro"}

RequestClients == {"", "claude", "openai", "nosuch"}

\* the sets of clients a configuration may register
Configs ==
    { [clients |-> {}],
      [clients |-> {"openai"}],
      [clients |-> {"claude"}],
      [clients |-> {"openai", "claude"}],
      [clients |-> {"openai", "openrouter"}],
      [clients |-> {"openai", "claude", "deepseek", "gemini", "ollama"}] }

\* ResolveClient(modelName, requestClient) returns one of the clients the map
\* iteration may meet first
CallResolveClient ==
    /\ app.fn = "ResolveClient"
    /\ ~app.done
    /\ \E clientName \in ResolveClient(conf, app.arg[1], app.arg[2]) :
        app' = [app EXCEPT !.out = clientName, !.done = TRUE]
    /\ UNCHANGED <<db, idgen, pool, ret, turn, calls, conf, rs, hist>>

InitResolve ==
    /\ InitServer
    /\ conf \in Configs
    /\ app \in {Apply("ResolveClient", <<m, c>>) :
                    m \in ModelNames, c \in RequestClients}

\* ResolveClient on each model name and client name, for each configuration
SpecResolve == InitResolve /\ [][CallResolveClient]_vars

\* the tri-state thinking flag of a request: a nil pointer, or true or false
Thinkings == {"unset", "true", "false"}

\* WithParams(params): the option that carries the parameters of the request
WithParams(thinking) == [opt |-> "RequestParams", value |-> thinking]

\* GetParams(opts): each RequestParams option copies its Thinking when it is
\* set, in the order of the options
GetParams(opts) ==
    LET set == {i \in 1..Len(opts) :
                    opts[i].opt = "RequestParams" /\ opts[i].value # "unset"}
    IN  [Thinking |-> IF set = {} THEN "unset" ELSE opts[Max(set)].value]

supportsReasoningEffort(modelName) ==
    LET m == ToLower(modelName)
    IN  \/ HasPrefix(m, "o1") \/ HasPrefix(m, "o3")
        \/ Contains(m, "gpt-5")
        \/ Contains(m, "gpt-6") \/ Contains(m, "gpt-7")

isGPT51OrLater(modelName) ==
    LET m == ToLower(modelName)
    IN  \/ Contains(m, "gpt-5.1") \/ Contains(m, "gpt-5.2")
        \/ Contains(m, "gpt-6") \/ Contains(m, "gpt-7")

supportsResponsesAPIReasoning(modelName) ==
    LET m == ToLower(modelName)
    IN  \/ HasPrefix(m, "o1") \/ HasPrefix(m, "o3") \/ HasPrefix(m, "o4")
        \/ Contains(m, "gpt-5")
        \/ Contains(m, "gpt-6") \/ Contains(m, "gpt-7")

isGrokReasoningModel(modelName) == Contains(ToLower(modelName), "reasoning")

\* OpenAIAdapter.injectReasoningEffort
OpenAIInjectReasoningEffort(modelName, opts) ==
    LET params == GetParams(opts)
    IN  IF params.Thinking = "unset" \/ ~supportsReasoningEffort(modelName)
        THEN opts
        ELSE IF params.Thinking = "true"
        THEN Append(opts, [opt |-> "ReasoningEffort", value |-> "high"])
        ELSE IF isGPT51OrLater(modelName)
        THEN Append(opts, [opt |-> "ReasoningEffort", value |-> "none"])
        ELSE Append(opts, [opt |-> "ReasoningEffort", value |-> "low"])

\* OpenAIResponseAdapter.injectReasoningConfig
injectReasoningConfig(modelName, opts) ==
    LET params == GetParams(opts)
    IN  IF params.Thinking = "unset" \/ ~supportsResponsesAPIReasoning(modelName)
        THEN opts
        ELSE IF params.Thinking = "true"
        THEN opts \o <<[opt |-> "ReasoningEffort", value |-> "high"],
                       [opt |-> "ReasoningSummary", value |-> "detailed"]>>
        ELSE Append(opts, [opt |-> "ReasoningEffort", value |-> "low"])

\* ClaudeAdapter.injectThinkingConfig
ClaudeInjectThinkingConfig(opts) ==
    LET params == GetParams(opts)
    IN  IF params.Thinking # "unset" /\ params.Thinking = "true"
        THEN Append(opts, [opt |-> "Thinking", value |-> "enable, 32000 tokens"])
        ELSE opts

\* GrokAdapter.injectReasoningEffort
GrokInjectReasoningEffort(modelName, opts) ==
    LET params == GetParams(opts)
    IN  IF params.Thinking = "unset" \/ ~isGrokReasoningModel(modelName)
        THEN opts
        ELSE IF params.Thinking = "true"
        THEN Append(opts, [opt |-> "ReasoningEffort", value |-> "high"])
        ELSE Append(opts, [opt |-> "ReasoningEffort", value |-> "low"])

\* GeminiAdapter.injectThinkingConfig
GeminiInjectThinkingConfig(opts) ==
    LET params == GetParams(opts)
        enable == params.Thinking = "unset" \/ params.Thinking = "true"
    IN  Append(opts,
               [opt |-> "ThinkingConfig",
                value |-> IF enable THEN "include thoughts, high"
                                    ELSE "no thoughts, low"])

\* the options an adapter hands to the raw model
InjectedOptions(adapter, modelName, opts) ==
    CASE adapter = "OpenAIAdapter" -> OpenAIInjectReasoningEffort(modelName, opts)
      [] adapter = "OpenAIResponseAdapter" -> injectReasoningConfig(modelName, opts)
      [] adapter = "ClaudeAdapter" -> ClaudeInjectThinkingConfig(opts)
      [] adapter = "GrokAdapter" -> GrokInjectReasoningEffort(modelName, opts)
      [] adapter = "GeminiAdapter" -> GeminiInjectThinkingConfig(opts)
      [] OTHER -> opts

\* Generate or Stream of an adapter: the method of the raw model it calls
\* and the options it calls it with
AdapterCall(adapter, modelName, method, opts) ==
    [method |-> IF method = "Stream"
                THEN StreamCall([adapter |-> adapter, modelName |-> modelName])
                ELSE "Generate",
     opts |-> InjectedOptions(adapter, modelName, opts)]

\* the adapters of CreateChatModel
AdapterNames ==
    {"OpenAIAdapter", "OpenAIResponseAdapter", "ClaudeAdapter",
     "DeepSeekAdapter", "GrokAdapter", "GeminiAdapter"}

\* model names on both sides of each test of the adapters
AdapterModels ==
    {"gpt-4o", "o3-mini", "GPT-5", "gpt-5.1", "grok-4-reasoning", "grok-4",
     "gemini-2.5-pro", "gemini-2.5-flash-image", "claude-x"}

\* a call of Generate or Stream on an adapter
CallAdapter ==
    /\ app.fn = "Adapter"
    /\ ~app.done
    /\ app' = [app EXCEPT
                  !.out = AdapterCall(app.arg[1], app.arg[2], app.arg[3],
                                      app.arg[4]),
                  !.done = TRUE]
    /\ UNCHANGED <<db, idgen, pool, ret, turn, calls, conf, rs, hist>>

InitAdapter ==
    /\ InitServer
    /\ conf = InitConf
    /\ app \in {Apply("Adapter", <<a, m, f, <<WithParams(t)>> >>) :
                    a \in AdapterNames, m \in AdapterModels,
                    f \in {"Generate", "Stream"}, t \in Thinkings}

\* Generate and Stream of each adapter, for each model name and each value
\* of the thinking flag
SpecAdapter == InitAdapter /\ [][CallAdapter]_vars

\* ModelCapabilities.SupportedModalities of the built-in registry, or
\* NoCapabilities for a name the registry does not hold (a nil pointer)
NoCapabilities == [known |-> FALSE, text |-> TRUE, image |-> TRUE,
                   audio |-> TRUE, video |-> TRUE]

\* ModelCapabilityRegistry.GetCapabilities after loadHardcodedCapabilities
GetCapabilities(clientName) ==
    IF clientName = "deepseek"
    THEN [known |-> TRUE, text |-> TRUE, image |-> FALSE,
          audio |-> FALSE, video |-> FALSE]
    ELSE IF clientName \in NonStreamingModels
    THEN [known |-> TRUE, text |-> TRUE, image |-> TRUE,
          audio |-> TRUE, video |-> TRUE]
    ELSE NoCapabilities

\* schema.MessageInputPart and schema.MessageOutputPart: the type of the
\* part, and its text or the reference to its media
TextPart(text) == [Type |-> "text", Text |-> text, URL |-> ""]
MediaPart(type, url) == [Type |-> type, Text |-> "", URL |-> url]

\* schema.Message as the backends receive it
OutboundMessage(role, content, reasoning, input, output) ==
    [Role |-> role, Content |-> content, ReasoningContent |-> reasoning,
     UserInputMultiContent |-> input, AssistantGenMultiContent |-> output]

\* whether caps supports the modality of a part of the given type; parts of
\* other types have no modality
SupportsType(caps, type) ==
    CASE type = "text" -> caps.text
      [] type = "image_url" -> caps.image
      [] type = "audio_url" -> caps.audio
      [] type = "video_url" -> caps.video
      [] OTHER -> TRUE

\* the bracket tag of a type of part
Placeholder(type) ==
    CASE type = "image_url" -> "[Image]"
      [] type = "audio_url" -> "[Audio]"
      [] type = "video_url" -> "[Video]"
      [] OTHER -> ""

\* filterInputMultiContent: a text part is kept if text is supported, a
\* media part is kept if supported and else replaced by its placeholder
filterInputMultiContent(parts, caps) ==
    LET kept == SelectSeq(parts, LAMBDA part :
                    part.Type # "text" \/ caps.text)
    IN  [i \in 1..Len(kept) |->
            IF SupportsType(caps, kept[i].Type) THEN kept[i]
            ELSE TextPart(Placeholder(kept[i].Type))]

RECURSIVE JoinStrings(_, _)
\* strings.Join(elems, sep)
JoinStrings(elems, sep) ==
    IF elems = <<>> THEN ""
    ELSE IF Len(elems) = 1 THEN elems[1]
    ELSE elems[1] \o sep \o JoinStrings(Tail(elems), sep)

\* buildContentPlaceholders: the tags of the media parts caps does not
\* support, separated by blanks
buildContentPlaceholders(parts, caps) ==
    LET media == SelectSeq(parts, LAMBDA part :
                    /\ part.Type \in {"image_url", "audio_url", "video_url"}
                    /\ ~SupportsType(caps, part.Type))
    IN  JoinStrings([i \in 1..Len(media) |-> Placeholder(media[i].Type)], " ")

\* the copy FilterMultimodalContent makes of one message
FilterMessage(msg, caps) ==
    LET placeholders ==
            IF msg.AssistantGenMultiContent # <<>>
            THEN buildContentPlaceholders(msg.AssistantGenMultiContent, caps)
            ELSE ""
        content ==
            IF placeholders = "" THEN msg.Content
            ELSE IF msg.Content # "" THEN msg.Content \o "\n" \o placeholders
            ELSE placeholders
        noText == msg.ReasoningContent # "" /\ ~caps.text
    IN  OutboundMessage(
            msg.Role,
            IF noText THEN content \o "\n[Reasoning Content]" ELSE content,
            IF noText THEN "" ELSE msg.ReasoningContent,
            IF msg.UserInputMultiContent # <<>>
            THEN filterInputMultiContent(msg.UserInputMultiContent, caps)
            ELSE <<>>,
            <<>>)

\* FilterMultimodalContent(messages, clientName): copies of the messages
\* without the parts the client does not support; the messages themselves
\* when the registry has no entry or the entry supports every media type
FilterMultimodalContent(messages, clientName) ==
    LET caps == GetCapabilities(clientName)
        needsFiltering == ~caps.image \/ ~caps.audio \/ ~caps.video
    IN  IF ~caps.known \/ ~needsFiltering THEN messages
        ELSE [i \in 1..Len(messages) |-> FilterMessage(messages[i], caps)]

\* the messages an adapter's Generate or Stream hands to the raw model: only
\* DeepSeekAdapter filters them, and the raw model of a client gets them as
\* they are
AdapterMessages(adapter, messages) ==
    IF adapter = "DeepSeekAdapter"
    THEN FilterMultimodalContent(messages, "deepseek")
    ELSE messages

\* messages of a history with and without media parts
OutboundMessages ==
    { OutboundMessage("user", "hi", "", <<>>, <<>>),
      OutboundMessage("user", "", "",
                      <<TextPart("look"), MediaPart("image_url", "img")>>, <<>>),
      OutboundMessage("user", "", "",
                      <<MediaPart("audio_url", "wav"), TextPart("and"),
                        MediaPart("video_url", "mp4"),
                        MediaPart("file_url", "pdf")>>, <<>>),
      OutboundMessage("assistant", "here", "why", <<>>,
                      <<MediaPart("image_url", "img")>>),
      OutboundMessage("assistant", "", "", <<>>,
                      <<MediaPart("audio_url", "wav"), TextPart("t"),
                        MediaPart("video_url", "mp4")>>) }

\* the longest history handed to a backend
MaxHistory == 2

Histories ==
    UNION {[1..n -> OutboundMessages] : n \in 1..MaxHistory}

\* the requests whose history is sent: model names with and without the
\* keyword of deepseek, no client or a named one
SendModels == {"deepseek-chat", "gpt-4o", "gemini-2.5-flash-image"}
SendClients == {"", "deepseek", "openai"}

\* lines 296-310 of ChatStream and 181-196 of Chat: ResolveClient,
\* CreateChatModel with the flag of the request, and Generate or Stream of
\* the chat model on the history
CallSend ==
    /\ app.fn = "Send"
    /\ ~app.done
    /\ \E clientName \in ResolveClient(conf, app.arg[1], app.arg[2]) :
        LET chatModel == CreateChatModel(conf, clientName, app.arg[1],
                                         app.arg[2] = "")
        IN  app' = [app EXCEPT
                      !.out = [err |-> chatModel.err,
                               client |-> clientName,
                               adapter |-> chatModel.adapter,
                               method |-> IF app.arg[3] = "Stream"
                                          THEN StreamCall(chatModel)
                                          ELSE "Generate",
                               messages |->
                                   IF chatModel.err # ErrNone THEN <<>>
                                   ELSE AdapterMessages(chatModel.adapter,
                                                        app.arg[4])],
                      !.done = TRUE]
    /\ UNCHANGED <<db, idgen, pool, ret, turn, calls, conf, rs, hist>>

InitSend ==
    /\ InitServer
    /\ conf = [clients |-> {"openai", "deepseek", "gemini"}]
    /\ app \in {Apply("Send", <<m, c, f, h>>) :
                    m \in SendModels, c \in SendClients,
                    f \in {"Generate", "Stream"}, h \in Histories}

\* histories sent to the backend of a request
SpecSend == InitSend /\ [][CallSend]_vars

\* requests of streaming turns that the Responses-API client serves: the
\* keyword of openai, and a model name shouldUseResponsesAPI accepts
ResponsesRequests ==
    {ChatRequest(0, "user", "hi", m, c) :
        m \in {"gpt-5", "o3-mini"}, c \in {"", "openai"}}

TurnResolveResponses == TurnResolveFrom(ResponsesRequests, {"usecase"})

\* lines 296-314 of ChatStream for a model of the Responses API:
\* ResolveClient, CreateChatModel, and chatModel.Stream, which is
\* Client.Stream with the context of the turn
TurnDispatchResponses ==
    /\ turn.pc = "ready"
    /\ turn.kind = "stream"
    /\ rs.pc = "idle"
    /\ \E clientName \in ResolveClient(conf, turn.modelName, turn.req.Client),
          ok \in BOOLEAN :
        LET chatModel == CreateChatModel(conf, clientName, turn.modelName,
                                         UseAdapter(turn.req))
            t1 == [turn EXCEPT !.calls = @ \o <<"CreateChatModel">>,
                               !.client = clientName,
                               !.useAdapter = UseAdapter(turn.req)]
            t2 == [t1 EXCEPT !.calls = @ \o <<"Stream">>,
                             !.adapter = chatModel.adapter,
                             !.raw = @ \o <<StreamCall(chatModel)>>]
        IN  /\ clientName = "openai"
            /\ shouldUseResponsesAPI(turn.modelName)
            /\ IF chatModel.err # ErrNone
               THEN /\ turn' = Return(t1, "create",
                                wrapError("create chat model", chatModel.err))
                    /\ UNCHANGED rs
               ELSE IF ~ok
               THEN /\ turn' = Return(t2, "stream",
                                wrapError("stream response", ErrBackend))
                    /\ rs' = [rs EXCEPT !.pc = "failed"]
               ELSE /\ turn' = [t2 EXCEPT !.pc = "streaming", !.source = "pipe"]
                    /\ rs' = [rs EXCEPT !.pc = "running", !.body = "open",
                                        !.watcher = "select", !.loop = "recv",
                                        !.consumer = "recv"]
    /\ UNCHANGED <<db, idgen, pool, ret>>
    /\ hist' = Observe(hist, db')
    /\ UNCHANGED <<calls, conf, app>>

\* the caller cancels the context while the turn is receiving
CtxCancelReceiving ==
    /\ turn.pc = "streaming"
    /\ turn.source = "pipe"
    /\ CtxCancel

\* mutant: the error of the callback is returned with the stream reader
\* left open
TurnPipeChunkLeavingOpen ==
    /\ turn.pc = "streaming"
    /\ turn.source = "pipe"
    /\ rs.items # <<>>
    /\ Head(rs.items) \in WireMessages
    /\ \E cbErr \in CallbackErrors(turn) :
        LET chunk == StreamChunk(Head(rs.items), "", <<>>)
            t1 == Accumulate(turn, chunk)
            t2 == [t1 EXCEPT !.chunks = @ \o <<chunk>>]
        IN  /\ turn' = IF cbErr THEN Return(t2, "chunk", ErrChunk) ELSE t2
            /\ rs' = [rs EXCEPT !.items = Tail(@), !.got = Head(rs.items),
                                !.consumer = "recv"]
    /\ UNCHANGED <<db, idgen, pool, ret>>
    /\ hist' = Observe(hist, db')
    /\ UNCHANGED <<calls, conf, app>>

\* lines 323-356 on the pipe: Recv returns the message at the head of the
\* buffer
TurnPipeChunk ==
    /\ turn.pc = "streaming"
    /\ turn.source = "pipe"
    /\ rs.items # <<>>
    /\ Head(rs.items) \in WireMessages
    /\ \E cbErr \in CallbackErrors(turn) :
        LET chunk == StreamChunk(Head(rs.items), "", <<>>)
            t1 == Accumulate(turn, chunk)
            t2 == [t1 EXCEPT !.chunks = @ \o <<chunk>>]
        IN  /\ turn' = IF cbErr THEN Return(t2, "chunk", ErrChunk) ELSE t2
            /\ rs' = [rs EXCEPT !.items = Tail(@), !.got = Head(rs.items),
                                !.consumer = IF cbErr THEN "closed" ELSE "recv",
                                !.recvClosed = cbErr]
    /\ UNCHANGED <<db, idgen, pool, ret>>
    /\ hist' = Observe(hist, db')
    /\ UNCHANGED <<calls, conf, app>>

\* lines 323-329 on the pipe: Recv returns the error the loop sent; the
\* deferred Close of the stream reader runs
TurnPipeError ==
    /\ turn.pc = "streaming"
    /\ turn.source = "pipe"
    /\ rs.items # <<>>
    /\ Head(rs.items) = "err"
    /\ turn' = Return([turn EXCEPT !.calls = @ \o <<"Recv">>], "recv",
                      wrapError("recv stream", ErrBackend))
    /\ rs' = [rs EXCEPT !.items = Tail(@), !.got = "err",
                        !.consumer = "closed", !.recvClosed = TRUE]
    /\ UNCHANGED <<db, idgen, pool, ret>>
    /\ hist' = Observe(hist, db')
    /\ UNCHANGED <<calls, conf, app>>

\* lines 325-326 and 358-369 on the pipe: Recv returns io.EOF, the buffer
\* being empty and the writer closed; the assistant message is built from
\* the accumulators and appended
TurnPipeEOF ==
    /\ turn.pc = "streaming"
    /\ turn.source = "pipe"
    /\ rs.items = <<>>
    /\ rs.sendClosed
    /\ \E fault \in AppendFaults :
        LET assistantMsg == Message(Assistant, turn.fullContent,
                                    turn.fullReasoning, turn.multiContent)
            r == AppendMessage(db, Now(db), turn.sessionID, assistantMsg,
                               turn.modelName, fault)
            t1 == [turn EXCEPT !.calls = @ \o <<"Recv">>]
        IN  /\ db' = r.db
            /\ ret' = Ret("AppendMessage", turn.sessionID, 0, r.id, 0, r.err)
            /\ turn' = EndOfStream(t1, r.err)
    /\ rs' = [rs EXCEPT !.got = "eof", !.consumer = "closed",
                        !.recvClosed = TRUE]
    /\ UNCHANGED <<idgen, pool>>
    /\ hist' = Observe(hist, db')
    /\ UNCHANGED <<calls, conf, app>>

NextCancel ==
    \/ TurnResolveResponses
    \/ TurnStart
    \/ TurnAppendUser
    \/ TurnDispatchResponses
    \/ CtxCancelReceiving
    \/ BackendEvent
    \/ WatcherCancel
    \/ WatcherReadDone
    \/ LoopRecv
    \/ LoopSend
    \/ LoopSendErr
    \/ LoopExit
    \/ TurnPipeChunk
    \/ TurnPipeError
    \/ TurnPipeEOF

\* a streaming turn served by the Responses-API client, whose context the
\* caller may cancel while the turn receives
SpecCancel == Init /\ [][NextCancel]_vars

\* the steps of ChatStream around its dispatch, and the handler's last write
HandlerSteps == TurnStart \/ TurnAppendUser \/ HandlerFinish

\* ENABLED <<TurnDispatch>>_vars: ResolveClient returns a client for every
\* model name, and a step of TurnDispatch always extends turn.calls
DispatchEnabled == turn.pc = "ready" /\ turn.kind = "stream"

\* a return of streamReader.Recv: an event, an error or io.EOF
RecvReturns == TurnRecvChunk \/ TurnRecvError \/ TurnRecvEOF

Next ==
    \/ CallNewConversation
    \/ CallAppendMessage
    \/ CallCreateBranchWithMessage
    \/ CallDeleteTree
    \/ CallGetTreeID
    \/ OpenRows
    \/ CloseRows

Spec == Init /\ [][Next]_vars

NextTurn ==
    \/ TurnResolve
    \/ TurnStart
    \/ TurnAppendUser
    \/ TurnDispatch
    \/ TurnRecvChunk
    \/ TurnRecvError
    \/ TurnRecvEOF

\* the turns of one caller after another on the store
SpecTurn == Init /\ [][NextTurn]_vars

NextHandler ==
    \/ HandlerChat
    \/ TurnStart
    \/ TurnAppendUser
    \/ TurnDispatch
    \/ TurnRecvChunk
    \/ TurnRecvError
    \/ TurnRecvEOF
    \/ HandlerFinish

\* the streaming turns of the HTTP handler
SpecHandler == Init /\ [][NextHandler]_vars

\* the streaming turns of the HTTP handler, whose goroutine is scheduled and
\* whose backend stream delivers an event, fails or ends
SpecHandlerLive ==
    /\ Init
    /\ [][NextHandler]_vars
    /\ WF_vars(HandlerSteps)
    /\ WF_vars(RecvReturns)
    \* WF_vars(TurnDispatch), with its enabling condition written out
    /\ ([]<>(~DispatchEnabled) \/ []<><<TurnDispatch>>_vars)

\* one of two ResolveClient(modelName, requestClient) calls made one after
\* the other on the same factory; app.out collects what they return
CallResolveClientAgain ==
    /\ app.fn = "ResolveClient twice"
    /\ ~app.done
    /\ \E clientName \in ResolveClient(conf, app.arg[1], app.arg[2]) :
        app' = [app EXCEPT !.out = @ \o <<clientName>>,
                           !.done = (Len(app.out) = 1)]
    /\ UNCHANGED <<db, idgen, pool, ret, turn, calls, conf, rs, hist>>

InitResolveTwice ==
    /\ InitServer
    /\ conf \in Configs
    /\ app \in {Apply("ResolveClient twice", <<m, c>>) :
                    m \in ModelNames, c \in RequestClients}

\* two ResolveClient calls with the same arguments, for each configuration
SpecResolveTwice == InitResolveTwice /\ [][CallResolveClientAgain]_vars

\* strings.TrimPrefix
TrimPrefix(s, prefix) ==
    IF HasPrefix(s, prefix) THEN SubSeq(s, Len(prefix) + 1, Len(s)) ELSE s

\* the lines a backend may put on the connection of a Responses-API stream.
\* "{hi}" stands for a JSON object whose delta is "hi", "{}" for one
\* without delta, response or error.
WireLines ==
    {"event: response.output_text.delta", "data: {hi}",
     "event: response.completed", "data: [DONE]", ""}

\* the number of lines sent before the connection ends
MaxLines == 3

\* how the connection ends: the body ends ("close": the read returns io.EOF)
\* or the read fails ("reset")
WireEndings == {"close", "reset"}

\* json.Unmarshal of the data of an event succeeds
ValidJSON(data) == data \in {"{}", "{hi}"}

\* streamReader.handleEvent: the message, the done flag and the error
handleEvent(eventType, data) ==
    CASE eventType = "response.output_text.delta" ->
            IF ~ValidJSON(data)
            THEN [msg |-> "", done |-> FALSE, err |-> "unmarshal output_text.delta"]
            ELSE [msg |-> IF data = "{hi}" THEN "hi" ELSE "", done |-> FALSE,
                  err |-> ErrNone]
      [] eventType = "response.completed" ->
            IF ~ValidJSON(data)
            THEN [msg |-> "", done |-> FALSE, err |-> "unmarshal response.completed"]
            ELSE [msg |-> "", done |-> TRUE, err |-> ErrNone]
      [] eventType = "response.failed" ->
            IF ~ValidJSON(data)
            THEN [msg |-> "", done |-> FALSE, err |-> "unmarshal response.failed"]
            ELSE [msg |-> "", done |-> TRUE, err |-> "response failed"]
      [] OTHER -> [msg |-> "", done |-> FALSE, err |-> ErrNone]

RECURSIVE streamRecv(_, _, _)
\* streamReader.Recv with the reader at line pos of the connection: what it
\* returns (ret: "msg", "io.EOF" or "error") and where the reader then is
streamRecv(lines, ending, pos) ==
    IF pos > Len(lines)
    THEN IF ending = "close"
         THEN [ret |-> "io.EOF", msg |-> "", err |-> ErrNone, pos |-> pos]
         ELSE [ret |-> "error", msg |-> "", err |-> "read stream", pos |-> pos]
    ELSE
    LET line == TrimSpace(lines[pos])
    IN  IF line = "" \/ HasPrefix(line, ":")
        THEN streamRecv(lines, ending, pos + 1)
        ELSE IF HasPrefix(line, "event:")
        THEN IF pos + 1 > Len(lines)
             THEN [ret |-> "error", msg |-> "", err |-> "read data line",
                   pos |-> pos + 1]
             ELSE
             LET eventType == TrimSpace(TrimPrefix(line, "event:"))
                 dataLine == TrimSpace(lines[pos + 1])
                 data == TrimSpace(TrimPrefix(dataLine, "data:"))
                 h == handleEvent(eventType, data)
             IN  IF ~HasPrefix(dataLine, "data:")
                 THEN streamRecv(lines, ending, pos + 2)
                 ELSE IF h.err # ErrNone
                 THEN [ret |-> "error", msg |-> "", err |-> h.err, pos |-> pos + 2]
                 ELSE IF h.done
                 THEN [ret |-> "io.EOF", msg |-> "", err |-> ErrNone, pos |-> pos + 2]
                 ELSE IF h.msg # ""
                 THEN [ret |-> "msg", msg |-> h.msg, err |-> ErrNone, pos |-> pos + 2]
                 ELSE streamRecv(lines, ending, pos + 2)
        ELSE IF HasPrefix(line, "data:")
                /\ TrimSpace(TrimPrefix(line, "data:")) = "[DONE]"
        THEN [ret |-> "io.EOF", msg |-> "", err |-> ErrNone, pos |-> pos + 1]
        ELSE streamRecv(lines, ending, pos + 1)

\* the receive loop of Client.Stream calls reader.Recv until it returns
\* io.EOF or an error; app.out collects what the calls returned
CallStreamRecv ==
    /\ app.fn = "streamReader.Recv"
    /\ ~app.done
    /\ LET pos == IF app.out = <<>> THEN 1 ELSE app.out[Len(app.out)].pos
           r == streamRecv(app.arg[1], app.arg[2], pos)
       IN  app' = [app EXCEPT !.out = @ \o <<r>>, !.done = (r.ret # "msg")]
    /\ UNCHANGED <<db, idgen, pool, ret, turn, calls, conf, rs, hist>>

\* the connections: up to MaxLines lines and an ending
Wires ==
    UNION {[1..n -> WireLines] : n \in 0..MaxLines}

InitRecv ==
    /\ InitServer
    /\ conf = InitConf
    /\ app \in {Apply("streamReader.Recv", <<w, e>>) :
                    w \in Wires, e \in WireEndings}

\* the stream reader of the Responses-API client on each connection
SpecRecv == InitRecv /\ [][CallStreamRecv]_vars

----------------------------------------------------------------------------
(* StateStore of the login flow (AuthHandler.login and .callback).  Here     *)
(* app.fn is "StateStore" and app.arg holds the store: states is the         *)
(* sync.Map (state token -> StateData), now the clock, next the number of    *)
(* tokens generated; saved remembers the expiry every token was saved with.  *)
(* app.out collects what the VerifyAndGetVerifier calls returned.  A state   *)
(* token is a number: generateState draws 32 random bytes.  Each callback    *)
(* runs in the goroutine of its request; calls[p] is its position.           *)

\* login requests, callbacks and clock ticks of the model
MaxStates == 2
MaxVerifies == 3
MaxClock == 2

\* the 10 minutes a state is valid, in ticks
StateTTL == 1

StateData(expiry, codeVerifier) == [Expiry |-> expiry, CodeVerifier |-> codeVerifier]

\* sync.Map.Delete
DeleteKey(m, key) == [k \in DOMAIN m \ {key} |-> m[k]]

InitStateStore ==
    [fn |-> "StateStore",
     arg |-> [states |-> <<>>, saved |-> <<>>, now |-> 0, next |-> 0],
     out |-> <<>>, done |-> FALSE]

\* login, lines 49-74: generateState and SaveWithVerifier(state, 10 min, ...)
AuthLogin ==
    /\ app.fn = "StateStore"
    /\ app.arg.next < MaxStates
    /\ LET state == app.arg.next + 1
           data == StateData(app.arg.now + StateTTL, "verifier")
       IN  app' = [app EXCEPT !.arg.next = state,
                              !.arg.states = (state :> data) @@ @,
                              !.arg.saved = (state :> data.Expiry) @@ @]
    /\ UNCHANGED <<db, idgen, pool, ret, turn, calls, conf, rs, hist>>

\* time passes
ClockTick ==
    /\ app.fn = "StateStore"
    /\ app.arg.now < MaxClock
    /\ app' = [app EXCEPT !.arg.now = @ + 1]
    /\ UNCHANGED <<db, idgen, pool, ret, turn, calls, conf, rs, hist>>

\* cleanup: on a tick of its timer the goroutine deletes the expired states
StateCleanup ==
    /\ app.fn = "StateStore"
    /\ \E k \in DOMAIN app.arg.states : app.arg.now > app.arg.states[k].Expiry
    /\ app' = [app EXCEPT !.arg.states =
                   [k \in {x \in DOMAIN @ : ~(app.arg.now > @[x].Expiry)} |-> @[k]]]
    /\ UNCHANGED <<db, idgen, pool, ret, turn, calls, conf, rs, hist>>

\* what a VerifyAndGetVerifier call returned, and when
Verified(state, ok, now) == [state |-> state, ok |-> ok, at |-> now]

\* VerifyAndGetVerifier lines 202-205, called by callback (line 81) with the
\* state of the request: s.states.Load(state)
VerifyLoad(p) ==
    /\ app.fn = "StateStore"
    /\ calls[p].pc = "idle"
    /\ Len(app.out) + Cardinality({q \in Procs : calls[q].pc = "loaded"})
           < MaxVerifies
    /\ \E state \in 1..MaxStates :
        IF state \notin DOMAIN app.arg.states
        THEN /\ app' = [app EXCEPT !.out = @ \o
                            <<Verified(state, FALSE, app.arg.now)>>]
             /\ UNCHANGED calls
        ELSE /\ calls' = [calls EXCEPT ![p] =
                            [pc |-> "loaded", op |-> "VerifyAndGetVerifier",
                             state |-> state, data |-> app.arg.states[state]]]
             /\ UNCHANGED app
    /\ UNCHANGED <<db, idgen, pool, ret, turn, conf, rs, hist>>

\* lines 207-214: the expiry check on the loaded
\* value, s.states.Delete(state) and the return
VerifyDelete(p) ==
    /\ app.fn = "StateStore"
    /\ calls[p].pc = "loaded"
    /\ LET c == calls[p]
           ok == ~(app.arg.now > c.data.Expiry)
       IN  app' = [app EXCEPT !.arg.states = DeleteKey(@, c.state),
                              !.out = @ \o <<Verified(c.state, ok, app.arg.now)>>]
    /\ calls' = Leave(p)
    /\ UNCHANGED <<db, idgen, pool, ret, turn, conf, rs, hist>>

InitAuth ==
    /\ InitServer
    /\ conf = InitConf
    /\ app = InitStateStore

NextAuth ==
    \/ AuthLogin
    \/ ClockTick
    \/ StateCleanup
    \/ \E p \in Procs : VerifyLoad(p) \/ VerifyDelete(p)

\* logins and the callbacks of concurrent requests
SpecAuth == InitAuth /\ [][NextAuth]_vars

\* mutant: a stored session without messages is returned as an empty list
GetSessionOfStored(d, sessionID) ==
    LET session == GetSessionMessages(d, sessionID)
    IN  IF session = <<>> /\ ~SessionExists(d, sessionID)
        THEN [session |-> <<>>, err |-> ErrSessionNotFound]
        ELSE [session |-> session, err |-> ErrNone]

\* ChatUsecase.GetSession: the nil result of GetSessionMessages, which the
\* empty sequence stands for, is reported as session not found
GetSession(d, sessionID) ==
    LET session == GetSessionMessages(d, sessionID)
    IN  IF session = <<>>
        THEN [session |-> <<>>, err |-> ErrSessionNotFound]
        ELSE [session |-> session, err |-> ErrNone]

\* a call of GetSession; ret.msgID is the length of the list returned
CallGetSession ==
    /\ NoOpenRows
    /\ \E sessionID \in SessionIds :
        LET r == GetSession(db, sessionID)
        IN  ret' = Ret("GetSession", sessionID, 0, Len(r.session), 0, r.err)
    /\ UNCHANGED <<db, idgen, pool, turn>>
    /\ hist' = Observe(hist, db')
    /\ UNCHANGED elsewhere

NextRead ==
    \/ CallNewConversation
    \/ CallAppendMessage
    \/ CallCreateBranchWithMessage
    \/ CallGetSession

\* the store's writes and the session detail read
SpecRead == Init /\ [][NextRead]_vars

NextRace ==
    \/ TurnResolve
    \/ TurnStart
    \/ TurnAppendMessage
    \/ TurnGetSessionMessages
    \/ TurnDispatch
    \/ TurnRecvChunk
    \/ TurnRecvError
    \/ TurnRecvEOF
    \/ CallAppendMessage

\* a streaming turn whose two store calls are two steps, beside the
\* AppendMessage calls of the turns of other requests
SpecRace == Init /\ [][NextRace]_vars

NextModel ==
    \/ TurnResolveModel
    \/ TurnStart
    \/ TurnAppendUser
    \/ TurnDispatch
    \/ TurnRecvChunk
    \/ TurnRecvError
    \/ TurnRecvEOF

\* streaming turns that name a model and may pin a client
SpecModel == Init /\ [][NextModel]_vars

NextChat ==
    \/ TurnResolve
    \/ TurnStart
    \/ TurnAppendUser
    \/ TurnDispatch
    \/ TurnRecvChunk
    \/ TurnRecvError
    \/ TurnRecvEOF
    \/ ChatAppendUser
    \/ ChatGenerate
    \/ ChatPersist

\* streaming and non-streaming turns, one after another
SpecChat == Init /\ [][NextChat]_vars

Watcher == WatcherCancel \/ WatcherReadDone

ReceiveLoop == LoopRecv \/ LoopSend \/ LoopSendErr \/ LoopExit

NextStream ==
    \/ ClientStream
    \/ CtxCancel
    \/ BackendEvent
    \/ WatcherCancel
    \/ WatcherReadDone
    \/ LoopRecv
    \/ LoopSend
    \/ LoopSendErr
    \/ LoopExit
    \/ ConsumerRecv
    \/ ConsumerRecvReturn
    \/ ConsumerClose

\* one Stream call of the Responses-API client.  Both goroutines are
\* scheduled fairly, and a Recv of the consumer that can return does; the
\* caller, the backend and what the consumer calls next are free.
SpecStream ==
    /\ Init
    /\ [][NextStream]_vars
    /\ WF_vars(Watcher)
    /\ WF_vars(ReceiveLoop)
    /\ WF_vars(ConsumerRecvReturn)

\* trees that come and go: conversations are created, written and deleted
NextIds ==
    \/ NewConversationUpTo(MaxIdTrees)
    \/ CallAppendMessage
    \/ CallDeleteTree

SpecIds == Init /\ [][NextIds]_vars

\* two conversations, their appends and branches, and the deletion of a tree
NextParents ==
    \/ NewConversationUpTo(MaxIdTrees)
    \/ CallAppendMessage
    \/ CallCreateBranchWithMessage
    \/ CallDeleteTree

SpecParents == Init /\ [][NextParents]_vars

NextAppends ==
    \/ CallNewConversation
    \/ \E p \in Procs :
        \/ AppendEnter(p)
        \/ AppendSelectMax(p)
        \/ AppendInsert(p)
        \/ BranchEnter(p)
        \/ BranchInsertSession(p)
        \/ BranchInsertMessage(p)
        \/ MetaSelectTree(p)
        \/ MetaCount(p)
        \/ MetaSelectTitle(p)
        \/ MetaSetTitle(p)
        \/ MetaTouch(p)

\* AppendMessage and CreateBranchWithMessage calls of concurrent requests
SpecAppends == Init /\ [][NextAppends]_vars

\* the title rule checked alone: the same calls, with the payloads around it
NextTitle ==
    \/ CallNewConversation
    \/ AppendMessageFrom(TitlePayloads)
    \/ CreateBranchWithMessageFrom(TitlePayloads)

SpecTitle == Init /\ [][NextTitle]_vars

----------------------------------------------------------------------------
(* Properties of the store *)

\* this step is a call of op (ret names the last call made)
Called(op) == ret'.op = op /\ (ret' # ret \/ db' # db \/ idgen' # idgen)

\* this step is a call of op that returned no error
Succeeded(op) == Called(op) /\ ret'.err = ErrNone

\* the stored rows of a session
OwnRows(d, sessionID) == [m \in MessagesOf(d, sessionID) |-> d.messages[m]]

\* the prefix of a sequence up to and including its element x
RECURSIVE PrefixThrough(_, _)
PrefixThrough(seq, x) ==
    IF seq = <<>> THEN <<>>
    ELSE IF Head(seq) = x THEN <<x>>
    ELSE <<Head(seq)>> \o PrefixThrough(Tail(seq), x)

\* C5: for every session, GetSessionMessages returns the ancestors of the
\* session's first message (each the parent of the next, the oldest with no
\* parent) followed by the session's own messages in strictly increasing id
\* order; ids strictly increase along the whole result, so no message appears
\* twice, and every entry is the decoded payload and model tag of its row.
C5_ResolveAncestorsThenOwn ==
    \A s \in DOMAIN db.sessions :
        LET ids == ResolvedIDs(db, s)
            own == SortedSeq(MessagesOf(db, s))
            k == Len(ids) - Len(own)
            res == GetSessionMessages(db, s)
        IN  /\ own = <<>> => ids = <<>>
            /\ own # <<>> =>
                /\ k >= 0
                /\ \A i \in 1..Len(own) : ids[k + i] = own[i]
                /\ \A i \in 1..k :
                      db.messages[ids[i + 1]].parent_id = ValidInt64(ids[i])
                /\ ~db.messages[ids[1]].parent_id.Valid
                /\ \A i, j \in 1..Len(ids) : i < j => ids[i] < ids[j]
            /\ Len(res) = Len(ids)
            /\ \A i \in 1..Len(ids) :
                  /\ res[i].Message = db.messages[ids[i]].message_data.value
                  /\ res[i].Model = db.messages[ids[i]].model

\* a branch whose resolved history leaves out a message of its tree that is
\* younger than its oldest ancestor (a message off the chain)
C5_Witness ==
    \E s \in DOMAIN db.sessions :
        /\ ancestors(db, s) # <<>>
        /\ \E m \in msgMap(db, s) :
              /\ m > ancestors(db, s)[1]
              /\ \A i \in 1..Len(ResolvedIDs(db, s)) : ResolvedIDs(db, s)[i] # m

\* C6: a successful CreateBranchWithMessage with parent M leaves the rows
\* and the resolved history of M's session unchanged, and the new branch
\* resolves to that history up to and including M followed by the branch's
\* first message; a successful AppendMessage to a session leaves the
\* resolved history of every other session unchanged.
C6_ForkKeepsOriginal ==
    [][ /\ Succeeded("CreateBranchWithMessage") =>
            LET M == ret'.parentMsgID
                orig == db.messages[M].session_id
            IN  /\ OwnRows(db', orig) = OwnRows(db, orig)
                /\ GetSessionMessages(db', orig) = GetSessionMessages(db, orig)
                /\ ResolvedIDs(db', ret'.sessionID) =
                       PrefixThrough(ResolvedIDs(db, orig), M) \o <<ret'.msgID>>
                /\ db'.messages[ret'.msgID].session_id = ret'.sessionID
        /\ Succeeded("AppendMessage") =>
            \A t \in DOMAIN db.sessions \ {ret'.sessionID} :
                /\ OwnRows(db', t) = OwnRows(db, t)
                /\ GetSessionMessages(db', t) = GetSessionMessages(db, t)
      ]_vars

\* an append has just succeeded on a branch or on the session it was forked
\* from
C6_Witness ==
    /\ ret.op = "AppendMessage"
    /\ ret.err = ErrNone
    /\ \E s \in DOMAIN db.sessions :
          /\ ancestors(db, s) # <<>>
          /\ ret.sessionID \in
                 {s, db.messages[ancestors(db, s)[Len(ancestors(db, s))]].session_id}
          /\ ret.msgID > Max(MessagesOf(db, s))

\* C7: AppendMessage on a session id that does not exist returns
\* session-not-found and leaves every table unchanged.
C7_AppendUnknownSession ==
    [][ Called("AppendMessage") /\ ret'.sessionID \notin DOMAIN db.sessions =>
            /\ ret'.err = ErrSessionNotFound
            /\ db' = db
      ]_vars

\* an append to an unknown session was refused while the store held messages
C7_Witness ==
    /\ ret.op = "AppendMessage"
    /\ ret.err = ErrSessionNotFound
    /\ ret.sessionID \notin DOMAIN db.sessions
    /\ db.messages # NoRows

OutsideTree(d, treeID) ==
    [trees |-> [t \in DOMAIN d.session_trees \ {treeID} |-> d.session_trees[t]],
     sessions |-> [s \in DOMAIN d.sessions \ SessionsOf(d, treeID) |-> d.sessions[s]],
     messages |-> [m \in {x \in DOMAIN d.messages :
                            d.messages[x].session_id \notin SessionsOf(d, treeID)}
                   |-> d.messages[m]]]

\* C9: after DeleteTree(treeId) of an existing tree no session of the tree
\* exists, GetSessionMessages is empty for each of them, no message of the
\* tree remains, and everything outside the tree is unchanged.
C9_DeleteTreeCascades ==
    [][ Called("DeleteTree") /\ ret'.treeID \in DOMAIN db.session_trees =>
            /\ \A s \in SessionsOf(db, ret'.treeID) :
                  /\ ~SessionExists(db', s)
                  /\ GetSessionMessages(db', s) = <<>>
            /\ \A m \in DOMAIN db.messages :
                  db.messages[m].session_id \in SessionsOf(db, ret'.treeID) =>
                      m \notin DOMAIN db'.messages
            /\ OutsideTree(db', ret'.treeID) = OutsideTree(db, ret'.treeID)
      ]_vars

\* the title of a tree is NULL or ""
TitleEmpty(d, treeID) ==
    \/ ~d.session_trees[treeID].title.Valid
    \/ d.session_trees[treeID].title.String = ""

\* C10: when a message is stored (AppendMessage or CreateBranchWithMessage)
\* in a tree whose title is empty, the title becomes the message text if the
\* message has role user and a nonempty text of at most 15 characters, the
\* first 15 characters followed by "..." if the text is longer, and stays
\* empty if the message is not a user message or its text is empty.
C10_TitleFromFirstUserText ==
    [][ Succeeded("AppendMessage") \/ Succeeded("CreateBranchWithMessage") =>
            LET row == db'.messages[ret'.msgID]
                msg == row.message_data.value
                treeID == db'.sessions[row.session_id].tree_id
            IN  treeID \in DOMAIN db.session_trees /\ TitleEmpty(db, treeID) =>
                    IF msg.Role = "user" /\ msg.Content # ""
                    THEN db'.session_trees[treeID].title =
                             [Valid |-> TRUE,
                              String |-> IF Len(msg.Content) <= 15
                                         THEN msg.Content
                                         ELSE SubSeq(msg.Content, 1, 15) \o "..."]
                    ELSE TitleEmpty(db', treeID)
      ]_vars

\* a tree got its title from a 16-character user text that was stored after
\* an assistant message and an empty user message
C10_Witness ==
    \E treeID \in DOMAIN db.session_trees :
        /\ db.session_trees[treeID].title = ValidString("123456789012345...")
        /\ db.sqlite_sequence = 3
        /\ db.messages[1].role = Assistant
        /\ db.messages[2].message_data.value.Content = ""
        /\ \A m \in DOMAIN db.messages :
              db.sessions[db.messages[m].session_id].tree_id = treeID

----------------------------------------------------------------------------
(* Properties of a streaming turn *)

\* the messages appended since the turn began
TurnRows == {m \in DOMAIN db.messages : m > turn.base}

\* those of them that are not the turn's user message
AssistantRows == TurnRows \ {turn.userMsgID}

\* the row ChatStream appends at the end of the stream
AssistantRow ==
    MessageRow(turn.sessionID, ValidInt64(turn.userMsgID), Assistant,
               turn.modelName,
               Marshal(Message(Assistant, turn.fullContent, turn.fullReasoning,
                               turn.multiContent)))

\* Recv returned io.EOF in this turn
EndedCleanly == turn.pc = "done" /\ turn.exit \in {"ok", "append_assistant"}

\* C1 as stated: while events are being received no assistant message is
\* appended; after the stream ends with EOF exactly one assistant message,
\* tagged with the model name and built from the accumulated text, reasoning
\* and multimodal parts, is appended; a turn never appends more than one.
C1_OneAssistantAfterEOF ==
    /\ turn.pc = "streaming" => AssistantRows = {}
    /\ Cardinality(AssistantRows) <= 1
    /\ EndedCleanly =>
          \E a \in AssistantRows :
              /\ AssistantRows = {a}
              /\ db.messages[a] = AssistantRow

\* C1, amended: while events are being received no assistant message is
\* appended; after the stream ends with EOF ChatStream appends the assistant
\* message once: if that append succeeds the session holds exactly one
\* assistant message for the turn, tagged with the model name and built from
\* the accumulated text, reasoning and multimodal parts, and ChatStream
\* returns nil; if it fails the session holds none and ChatStream returns the
\* error.  A turn never appends more than one assistant message.
C1_OneAssistantAfterEOFIfAppended ==
    /\ turn.pc = "streaming" => AssistantRows = {}
    /\ Cardinality(AssistantRows) <= 1
    /\ (turn.pc = "done" /\ turn.exit = "ok") =>
          /\ turn.err = ErrNone
          /\ \E a \in AssistantRows :
                /\ AssistantRows = {a}
                /\ db.messages[a] = AssistantRow
    /\ (turn.pc = "done" /\ turn.exit = "append_assistant") =>
          /\ turn.err # ErrNone
          /\ AssistantRows = {}

\* a turn that streamed as many events as the bound allows, with text, ended
\* with EOF and has its assistant message stored
C1_Witness ==
    /\ turn.pc = "done"
    /\ turn.exit = "ok"
    /\ Len(turn.events) = MaxEvents
    /\ turn.fullContent # ""
    /\ turn.modelName = "m1"
    /\ AssistantRows # {}

\* C2: when Recv returns an error other than EOF, after any number of events,
\* ChatStream returns an error and the step stores nothing: no assistant
\* message is appended, the last message of the session is the turn's user
\* message, and the store is as it was when the stream began.
C2_StreamErrorStoresNothing ==
    [][(turn.pc = "streaming" /\ turn'.pc = "done" /\ turn'.exit = "recv") =>
          /\ turn'.err # ErrNone
          /\ db' = db
          /\ TurnRows = {turn.userMsgID}
          /\ Max(MessagesOf(db', turn.sessionID)) = turn.userMsgID
          /\ Unmarshal(db'.messages[turn.userMsgID].message_data) =
                Message(parseRole(turn.req.Role), turn.req.Content, "", <<>>)
      ]_vars

\* a turn whose stream failed after events with text and reasoning
C2_Witness ==
    /\ turn.pc = "done"
    /\ turn.exit = "recv"
    /\ Len(turn.events) = MaxEvents
    /\ turn.fullContent # ""
    /\ turn.fullReasoning # ""

\* an event that carries text, reasoning or multimodal parts
NonEmptyEvent(e) ==
    \/ e.Content # ""
    \/ e.ReasoningContent # ""
    \/ e.AssistantGenMultiContent # <<>>

RECURSIVE ConcatContent(_)
ConcatContent(events) ==
    IF events = <<>> THEN ""
    ELSE Head(events).Content \o ConcatContent(Tail(events))

RECURSIVE ConcatReasoning(_)
ConcatReasoning(events) ==
    IF events = <<>> THEN ""
    ELSE Head(events).ReasoningContent \o ConcatReasoning(Tail(events))

RECURSIVE ConcatMulti(_)
ConcatMulti(events) ==
    IF events = <<>> THEN <<>>
    ELSE Head(events).AssistantGenMultiContent \o ConcatMulti(Tail(events))

\* C3: the assistant message a turn has stored carries the concatenation of
\* the text deltas of the events received, in order, the concatenation of
\* the reasoning deltas, and the multimodal parts in order; the chunk
\* callback has been called once for each event with text, reasoning or
\* multimodal parts, in event order and with that event's values, and not at
\* all for an event with none.
C3_PersistedIsConcatenation ==
    /\ turn.chunks = SelectSeq(turn.events, NonEmptyEvent)
    /\ \A a \in AssistantRows :
          LET msg == Unmarshal(db.messages[a].message_data)
          IN  /\ EndedCleanly
              /\ msg.Content = ConcatContent(turn.events)
              /\ msg.ReasoningContent = ConcatReasoning(turn.events)
              /\ msg.AssistantGenMultiContent = ConcatMulti(turn.events)

\* a stored turn of two events, one of them empty and one with multimodal
\* parts only
C3_Witness ==
    /\ turn.pc = "done"
    /\ turn.exit = "ok"
    /\ AssistantRows # {}
    /\ Len(turn.events) >= 2
    /\ \E i \in 1..Len(turn.events) : ~NonEmptyEvent(turn.events[i])
    /\ \E i \in 1..Len(turn.events) :
          /\ turn.events[i].Content = ""
          /\ turn.events[i].AssistantGenMultiContent # <<>>

\* C4: the start callback is called at most once in a turn, and it has been
\* called, and has returned nil, before the user message is appended, before
\* the model factory or the backend is called and before any chunk callback;
\* when it returns an error ChatStream returns it with no message appended
\* and no call made to the factory or the backend.
C4_StartFirstAndOnce ==
    /\ turn.starts <= 1
    /\ (TurnRows # {} \/ turn.calls # <<>> \/ turn.chunks # <<>>
            \/ turn.pc \in {"started", "ready", "streaming"}) =>
          /\ turn.starts = 1
          /\ turn.exit # "start"
    /\ (turn.pc = "done" /\ turn.exit = "start") =>
          /\ turn.starts = 1
          /\ turn.err # ErrNone
          /\ TurnRows = {}
          /\ turn.calls = <<>>
          /\ turn.chunks = <<>>

\* a turn on a new conversation that has called onStart, appended the user
\* message, called the backend and handed a chunk to the chunk callback
C4_Witness ==
    /\ turn.isNew
    /\ turn.starts = 1
    /\ turn.userMsgID \in TurnRows
    /\ turn.calls # <<>>
    /\ turn.chunks # <<>>

----------------------------------------------------------------------------
(* Properties of the store under concurrent requests, and of its history *)

\* C11: once the title of a tree is non-empty no step changes it, whatever
\* the interleaving of the statements of AppendMessage and
\* CreateBranchWithMessage calls on sessions of the tree.
C11_TitleNeverChanges ==
    [][\A t \in DOMAIN db.session_trees :
          (t \in DOMAIN db'.session_trees /\ ~TitleEmpty(db, t)) =>
              db'.session_trees[t].title = db.session_trees[t].title
      ]_vars

\* the messages a step adds to the store
\* C11, amended: a step changes a non-empty title only when it is the title
\* update of a call that read the title while it was still empty, ran
\* concurrently with the call that set it, and carries a user text of its
\* own; the title becomes the one made from that text.  A call that read a
\* non-empty title never writes the title.
C11_TitleChangesOnlyInRace ==
    [][\A t \in DOMAIN db.session_trees :
          (t \in DOMAIN db'.session_trees /\ ~TitleEmpty(db, t)
              /\ db'.session_trees[t].title # db.session_trees[t].title) =>
              \E p \in Procs :
                  /\ calls[p].pc = "set_title"
                  /\ calls'[p].pc = "touch"
                  /\ calls[p].treeID = t
                  /\ ~calls[p].title.Valid \/ calls[p].title.String = ""
                  /\ calls[p].msg.Role = User
                  /\ db'.session_trees[t].title
                        = ValidString(newTitle(calls[p].msg.Content))
      ]_vars

\* a call is about to write its title over the one another call has set
C11_Witness ==
    \E p \in Procs :
        /\ calls[p].pc = "set_title"
        /\ calls[p].treeID \in DOMAIN db.session_trees
        /\ ~TitleEmpty(db, calls[p].treeID)
        /\ db.session_trees[calls[p].treeID].title
              # ValidString(newTitle(calls[p].msg.Content))

NewRows == DOMAIN db'.messages \ DOMAIN db.messages

\* C12: the id of every message a step stores is greater than the id of
\* every message that has ever been in the store, deleted ones included; so
\* ids strictly increase and none is used twice, also after the tree that
\* held the highest id was deleted.
C12_IdsIncreaseNeverReused ==
    [][\A m \in NewRows : \A k \in hist.ids : m > k]_vars

\* a message stored after the tree holding the highest id had been deleted
C12_Witness ==
    /\ ret.op = "AppendMessage"
    /\ ret.err = ErrNone
    /\ ret.msgID \in DOMAIN db.messages
    /\ \E k \in hist.ids : k \notin DOMAIN db.messages /\ k = ret.msgID - 1

\* C13: a step leaves every message that stays in the store exactly as it
\* was (session, parent id, role, model tag, payload), and a message leaves
\* the store only in a DeleteTree call for the tree of its session.
C13_MessagesAppendOnly ==
    [][\A m \in DOMAIN db.messages :
          IF m \in DOMAIN db'.messages
          THEN db'.messages[m] = db.messages[m]
          ELSE /\ Called("DeleteTree")
               /\ db.messages[m].session_id \in DOMAIN db.sessions
               /\ db.sessions[db.messages[m].session_id].tree_id = ret'.treeID
      ]_vars

\* a store that kept its first messages through a later append and a fork
C13_Witness ==
    /\ ret.op = "CreateBranchWithMessage"
    /\ ret.err = ErrNone
    /\ Cardinality(DOMAIN db.messages) >= 3

----------------------------------------------------------------------------
(* Properties of streaming and non-streaming turns *)

\* this step begins a turn
BeginsTurn == TurnIdle /\ turn' # turn /\ turn'.req \in Requests

\* C14: a turn without a session id creates a tree and a session with
\* NewConversation and is marked is-new; a turn with the id of a session that
\* does not exist fails with a session-not-found error before any start
\* notification, append or backend call and leaves the store unchanged; for
\* ChatStream and for Chat.
C14_SessionResolution ==
    [][BeginsTurn =>
          /\ turn'.req.Session = 0 =>
                /\ Called("NewConversation")
                /\ turn'.isNew
                /\ turn'.sessionID \in DOMAIN db'.sessions \ DOMAIN db.sessions
                /\ turn'.treeID \in DOMAIN db'.session_trees
                                    \ DOMAIN db.session_trees
          /\ (turn'.req.Session # 0
                /\ turn'.req.Session \notin DOMAIN db.sessions) =>
                /\ turn'.pc = "done"
                /\ Contains(turn'.err, "session not found")
                /\ turn'.starts = 0
                /\ turn'.calls = <<>>
                /\ turn'.raw = <<>>
                /\ db' = db
      ]_vars

\* the Generate calls of the turn
GenerateCalls == Len(SelectSeq(turn.calls, LAMBDA c : c = "Generate"))

\* the one assistant message of a Chat turn is msg, tagged with the model name
ChatStored(msg) ==
    /\ Cardinality(AssistantRows) = 1
    /\ \A a \in AssistantRows :
          /\ Unmarshal(db.messages[a].message_data) = msg
          /\ db.messages[a].model = turn.modelName
          /\ db.messages[a].session_id = turn.req.Session

\* C15 as stated: Chat makes exactly one Generate call; if it fails the turn
\* returns the error and no assistant message is appended; if it succeeds
\* exactly one assistant message tagged with the model name is appended and
\* returned.
C15_OneGenerate ==
    turn.kind = "chat" =>
        /\ GenerateCalls <= 1
        /\ (turn.pc = "done" /\ turn.exit = "generate") =>
              /\ GenerateCalls = 1
              /\ turn.err # ErrNone
              /\ AssistantRows = {}
        /\ (turn.pc = "done" /\ turn.exit \in {"ok", "append_assistant"}) =>
              /\ GenerateCalls = 1
              /\ turn.err = ErrNone
              /\ turn.out = ChatResponse(turn.resp, turn.modelName)
              /\ ChatStored(turn.resp)

\* C15, amended: Chat makes exactly one Generate call; if it fails the turn
\* returns the error and no assistant message is appended; if it succeeds
\* the response is appended once, tagged with the model name: when that
\* append succeeds the session holds exactly that one assistant message for
\* the turn and Chat returns it, when it fails the session holds none and
\* Chat returns the error.
C15_OneGenerateThenAppend ==
    turn.kind = "chat" =>
        /\ GenerateCalls <= 1
        /\ Cardinality(AssistantRows) <= 1
        /\ turn.pc \in {"ready", "generated"} => AssistantRows = {}
        /\ turn.pc = "generated" => GenerateCalls = 1
        /\ (turn.pc = "done" /\ turn.exit = "generate") =>
              /\ GenerateCalls = 1
              /\ turn.err = wrapError("generate response", ErrBackend)
              /\ AssistantRows = {}
        /\ (turn.pc = "done" /\ turn.exit = "ok") =>
              /\ GenerateCalls = 1
              /\ turn.err = ErrNone
              /\ turn.out = ChatResponse(turn.resp, turn.modelName)
              /\ ChatStored(turn.resp)
        /\ (turn.pc = "done" /\ turn.exit = "append_assistant") =>
              /\ GenerateCalls = 1
              /\ turn.err # ErrNone
              /\ AssistantRows = {}

C15_Witness ==
    /\ turn.kind = "chat"
    /\ turn.pc = "done"
    /\ turn.exit = "ok"
    /\ turn.resp.Content = "Hello"
    /\ AssistantRows # {}

\* the calls that are backend activity: creating the model or its adapter,
\* Generate, Stream and reading the stream
BackendCalls == Len(turn.calls) + Len(turn.raw)

\* C16: in every turn there is no backend activity unless the user message
\* of the turn was appended first; when that append fails the turn returns
\* the error at once, having made no backend call.
C16_BackendAfterUserAppend ==
    /\ BackendCalls > 0 =>
          /\ turn.userMsgID \in TurnRows
          /\ db.messages[turn.userMsgID].session_id = turn.sessionID
          /\ Unmarshal(db.messages[turn.userMsgID].message_data).Content
                = turn.req.Content
    /\ (turn.pc = "done" /\ turn.exit = "append_user") =>
          /\ BackendCalls = 0
          /\ turn.err # ErrNone
          /\ TurnRows = {}

C16_Witness ==
    /\ turn.pc = "done"
    /\ turn.exit = "append_user"
    /\ turn.kind = "chat"
    /\ turn.req.Session \in DOMAIN db.sessions
    /\ ret.err = ErrInsert

\* the last append of a streaming turn that read its stream to the end failed
FinalAppendFailed ==
    /\ turn.kind = "stream"
    /\ turn.pc = "done"
    /\ turn.userMsgID # 0
    /\ ret.op = "AppendMessage"
    /\ ret.err # ErrNone

\* C17: when the final append of the assistant message fails after a stream
\* that ended cleanly, ChatStream returns an error although every chunk was
\* handed to the chunk callback; the session holds no assistant message of
\* the turn, and the handler writes an error event and no done event.
C17_FinalAppendFailure ==
    (turn.caller = "handler" /\ FinalAppendFailed) =>
        /\ turn.err = wrapError("append assistant message", ret.err)
        /\ turn.chunks = SelectSeq(turn.events, NonEmptyEvent)
        /\ AssistantRows = {}
        /\ \A i \in 1..Len(turn.sse) : turn.sse[i].event # "done"
        /\ turn.finished =>
              /\ turn.sse[Len(turn.sse)] = SSE("error", turn.err)
              /\ Len(SelectSeq(turn.sse, LAMBDA e : e.event = "error")) = 1

C17_Witness ==
    /\ turn.caller = "handler"
    /\ FinalAppendFailed
    /\ turn.finished
    /\ Len(turn.chunks) = MaxEvents

\* C20: for a model flagged as requiring non-streaming mode, a streaming turn
\* never issues a Stream call to the underlying backend: it issues exactly
\* one Generate call and serves the events made from its response, whether
\* the client was resolved by keyword or pinned by the request.
C20_FlaggedModelNeverStreams ==
    (turn.kind = "stream" /\ RequiresNonStreamingMode(turn.modelName)) =>
        /\ \A i \in 1..Len(turn.raw) : turn.raw[i] # "Stream"
        /\ "Stream" \in {turn.calls[i] : i \in 1..Len(turn.calls)} =>
              /\ turn.raw = <<"Generate">>
              /\ turn.pc = "streaming" =>
                    /\ turn.source = "array"
                    /\ turn.events \o turn.pending
                          = splitResponseToChunks(turn.resp)

----------------------------------------------------------------------------
(* Properties of Client.Stream of the Responses-API client *)

\* the receive loop is blocked reading the connection
BlockedReading == rs.loop = "recv" /\ rs.inbox = <<>> /\ rs.body = "open"

\* the receive loop is blocked handing an item to a consumer that has not
\* closed the stream
BlockedSending ==
    /\ rs.loop \in {"send", "senderr"}
    /\ Len(rs.items) = PipeCap
    /\ ~rs.recvClosed

Cancelled == rs.ctx = "cancelled"

C19_NeitherBlockedForever ==
    /\ [](rs.readDone <= 1 /\ (rs.loop = "done" => rs.readDone = 1))
    /\ (rs.loop = "done") ~> (rs.watcher = "done")
    /\ (rs.pc = "running" /\ (Cancelled \/ rs.recvClosed))
          ~> (rs.loop = "done" /\ rs.watcher = "done")

\* C19, amended: whenever the receive loop has finished, readDone was closed
\* exactly once and the watcher terminates.  Once the context is cancelled
\* the watcher terminates and the loop does not stay reading: it finishes
\* unless it is held handing an item to a consumer that neither receives
\* nor closes.  Once the consumer has closed the stream the loop finishes
\* unless it is blocked reading a connection on which the backend is silent
\* and the context is not cancelled; then the watcher waits with it.  Once
\* both have happened both goroutines terminate.
C19_WatcherNeverOutlivesLoop ==
    /\ [](rs.readDone <= 1 /\ (rs.loop = "done" => rs.readDone = 1))
    /\ [](rs.readDone = 1 => rs.loop = "done")
    /\ (rs.loop = "done") ~> (rs.watcher = "done")
    /\ (rs.pc = "running" /\ Cancelled) ~> (rs.watcher = "done")
    /\ (rs.pc = "running" /\ Cancelled) ~> (rs.loop = "done" \/ BlockedSending)
    /\ (rs.pc = "running" /\ rs.recvClosed)
          ~> (rs.loop = "done" \/ (BlockedReading /\ ~Cancelled))
    /\ (rs.pc = "running" /\ Cancelled /\ rs.recvClosed)
          ~> (rs.loop = "done" /\ rs.watcher = "done")

C19_Witness ==
    /\ rs.loop = "done"
    /\ rs.watcher = "done"
    /\ rs.readDone = 1
    /\ rs.recvClosed
    /\ ~Cancelled
    /\ rs.item \in WireMessages

----------------------------------------------------------------------------
(* Properties of the functions of the adapters and of the factory *)

\* an event that carries reasoning only, text only, parts only
ReasoningEvent(e) ==
    e.ReasoningContent # "" /\ e.Content = "" /\ e.AssistantGenMultiContent = <<>>

TextEvent(e) ==
    e.Content # "" /\ e.ReasoningContent = "" /\ e.AssistantGenMultiContent = <<>>

PartsEvent(e) ==
    e.AssistantGenMultiContent # <<>> /\ e.Content = "" /\ e.ReasoningContent = ""

\* the non-blank paragraphs of a reasoning text, trimmed, in order:
\* paragraphs are parted by blank lines, and by line breaks when there is no
\* blank line
Paragraphs(text) ==
    LET parts == IF Len(Split(text, "\n\n")) > 1 THEN Split(text, "\n\n")
                 ELSE Split(text, "\n")
    IN  SelectSeq([i \in 1..Len(parts) |-> TrimSpace(parts[i])],
                  LAMBDA x : x # "")

\* C21: the event sequence made from a full response is never empty and is
\* ordered: the reasoning events first, one for each non-blank paragraph in
\* paragraph order, then at most one text event with the whole text, then
\* at most one event with all the multimodal parts.
C21_SplitOrdered ==
    (app.fn = "splitResponseToChunks" /\ app.done) =>
        LET resp == app.arg
            out == app.out
            paras == Paragraphs(resp.ReasoningContent)
            n == Len(paras)
            hasText == resp.Content # ""
            hasParts == resp.AssistantGenMultiContent # <<>>
            t == IF hasText THEN 1 ELSE 0
            m == IF hasParts THEN 1 ELSE 0
        IN  /\ Len(out) >= 1
            /\ (n + t + m > 0) => Len(out) = n + t + m
            /\ (n + t + m = 0) => out = <<StreamChunk("", "", <<>>)>>
            /\ \A i \in 1..n :
                  /\ ReasoningEvent(out[i])
                  /\ out[i].ReasoningContent = paras[i] \o "\n"
            /\ hasText =>
                  /\ TextEvent(out[n + 1])
                  /\ out[n + 1].Content = resp.Content
            /\ hasParts =>
                  /\ PartsEvent(out[n + t + 1])
                  /\ out[n + t + 1].AssistantGenMultiContent
                        = resp.AssistantGenMultiContent
            /\ \A i, j \in 1..Len(out) :
                  /\ (ReasoningEvent(out[j]) /\ ~ReasoningEvent(out[i])) => j < i
                  /\ (PartsEvent(out[i]) /\ ~PartsEvent(out[j])) => j <= i

\* a response with two paragraphs, text and two parts has been split
C21_Witness ==
    /\ app.fn = "splitResponseToChunks"
    /\ app.done
    /\ app.arg = Message(Assistant, "Hello", " a \n\n\n\n b", <<"img", "wav">>)
    /\ Len(app.out) = 4

\* the clients of the keyword table in the order the table lists them
KeywordOrder ==
    <<"openai", "claude", "ark", "arkbot", "deepseek", "gemini", "grok", "glm",
      "kimi", "minimax", "ollama", "openrouter", "qianfan", "qwen">>

\* the positions in the table of the registered clients one of whose
\* keywords is in the model name, whatever the case of the letters
MatchingAt(f, modelName) ==
    {i \in 1..Len(KeywordOrder) :
        /\ KeywordOrder[i] \in f.clients
        /\ \E keyword \in clientKeywords[KeywordOrder[i]] :
              Contains(ToLower(modelName), ToLower(keyword))}

\* C22: ResolveClient returns the request's client when it is non-empty and
\* registered; otherwise the first client of the keyword table one of whose
\* keywords is in the model name; otherwise the default client.
C22_ResolveClient ==
    (app.fn = "ResolveClient" /\ app.done) =>
        LET modelName == app.arg[1]
            requestClient == app.arg[2]
        IN  app.out =
                IF requestClient # "" /\ requestClient \in conf.clients
                THEN requestClient
                ELSE IF MatchingAt(conf, modelName) # {}
                THEN KeywordOrder[Min(MatchingAt(conf, modelName))]
                ELSE "openai"

\* C23: when the thinking flag of the request is unset, every adapter hands
\* the raw model the options it was given, for Generate and for Stream.
C23_UnsetInjectsNothing ==
    (app.fn = "Adapter" /\ app.done
        /\ GetParams(app.arg[4]).Thinking = "unset") =>
            app.out.opts = app.arg[4]

\* the client of the turn was chosen because the request named it: the
\* first branch of ResolveClient
Pinned ==
    /\ turn.req.Client # ""
    /\ turn.req.Client \in conf.clients
    /\ turn.client = turn.req.Client

\* C24: the flag a turn passes to CreateChatModel is false exactly when the
\* client used was chosen because the request named it, and true exactly
\* when it was chosen by the keywords or by default.
C24_AdapterPolicy ==
    (\E i \in 1..Len(turn.calls) : turn.calls[i] = "CreateChatModel") =>
        (turn.useAdapter <=> ~Pinned)

\* the part carries media of a modality caps does not support
Unsupported(caps, part) ==
    /\ part.Type \in {"image_url", "audio_url", "video_url"}
    /\ ~SupportsType(caps, part.Type)

\* the tags of the unsupported parts of a message, in order
Tags(caps, parts) ==
    LET media == SelectSeq(parts, LAMBDA part : Unsupported(caps, part))
    IN  [i \in 1..Len(media) |-> Placeholder(media[i].Type)]

\* C25: the history that reaches a backend whose capability entry marks a
\* modality unsupported has no part of that modality: in a user message the
\* part is replaced in place by the text part "[Image]", "[Audio]" or
\* "[Video]"; in an assistant message it is dropped and its tag is appended
\* to the text of the message.
C25_NoUnsupportedPartSent ==
    (app.fn = "Send" /\ app.done /\ app.out.err = ErrNone) =>
        LET caps == GetCapabilities(app.out.client)
            given == app.arg[4]
            sent == app.out.messages
        IN  /\ Len(sent) = Len(given)
            /\ \A i \in 1..Len(sent) :
                LET input == given[i].UserInputMultiContent
                    output == given[i].AssistantGenMultiContent
                    tags == Tags(caps, output)
                IN  /\ \A k \in 1..Len(sent[i].UserInputMultiContent) :
                          ~Unsupported(caps, sent[i].UserInputMultiContent[k])
                    /\ \A k \in 1..Len(sent[i].AssistantGenMultiContent) :
                          ~Unsupported(caps, sent[i].AssistantGenMultiContent[k])
                    /\ Len(sent[i].UserInputMultiContent) = Len(input)
                    /\ \A k \in 1..Len(input) :
                          sent[i].UserInputMultiContent[k] =
                              IF Unsupported(caps, input[k])
                              THEN TextPart(Placeholder(input[k].Type))
                              ELSE input[k]
                    /\ sent[i].Content =
                          IF tags = <<>> THEN given[i].Content
                          ELSE IF given[i].Content = ""
                          THEN JoinStrings(tags, " ")
                          ELSE given[i].Content \o "\n" \o JoinStrings(tags, " ")

\* the same statement for the turns whose chat model is an adapter
C25_AdapterFilters ==
    (app.fn = "Send" /\ app.done /\ app.out.adapter = "") \/ C25_NoUnsupportedPartSent

----------------------------------------------------------------------------
(* Further properties of the store *)

C26_WitnessUnknownParent ==
    /\ ret.op = "CreateBranchWithMessage"
    /\ ret.err = ErrParentNotFound
    /\ ret.parentMsgID \notin DOMAIN db.messages
    /\ db.messages # NoRows

\* C27: in every reachable state each message of a session other than its
\* first has as parent the message of the same session with the next-smaller
\* id, and only the first message of a session has no parent.
C27_ParentIsPrevious ==
    \A s \in DOMAIN db.sessions :
        LET own == MessagesOf(db, s)
        IN  \A m \in own :
                /\ m # Min(own) =>
                      db.messages[m].parent_id =
                          ValidInt64(Max({k \in own : k < m}))
                /\ ~db.messages[m].parent_id.Valid => m = Min(own)

\* this step is a statement of a call AppendMessage(S, ...) of process p
AppendStep(p, S) ==
    /\ calls'[p] # calls[p]
    /\ \/ calls[p].op = "AppendMessage" /\ calls[p].sessionID = S
       \/ /\ calls[p].pc = "idle"
          /\ calls'[p].op = "AppendMessage"
          /\ calls'[p].sessionID = S

----------------------------------------------------------------------------
(* Further properties of the turn *)

\* C29: a turn whose request names a client that is not registered calls no
\* backend and returns an error.
C29_UnregisteredClientRefused ==
    (turn.req.Client # "" /\ turn.req.Client \notin conf.clients) =>
        /\ turn.raw = <<>>
        /\ \A i \in 1..Len(turn.calls) : turn.calls[i] \notin {"Stream", "Generate"}
        /\ turn.pc = "done" => turn.err # ErrNone

\* C30: when the context is cancelled while the turn receives from the
\* stream of the Responses API and the read is cut by it, the turn appends
\* no assistant message.
C30_CancelledNotPersisted ==
    (turn.source = "pipe" /\ rs.aborted) =>
        /\ AssistantRows = {}
        /\ turn.pc = "done" => turn.exit # "ok"

\* C31: when the chunk callback returns an error, ChatStream returns that
\* error, the event it was called with is the last one received and the last
\* one forwarded, and no assistant message is appended; once ChatStream has
\* returned after the stream was opened, the stream reader is closed.
C31_CallbackErrorStops ==
    /\ (turn.pc = "done" /\ turn.exit = "chunk") =>
          /\ turn.err = ErrChunk
          /\ AssistantRows = {}
          /\ turn.chunks # <<>>
          /\ turn.events[Len(turn.events)] = turn.chunks[Len(turn.chunks)]
    /\ (turn.pc = "done" /\ turn.source = "pipe" /\ rs.pc = "running") =>
          /\ rs.recvClosed
          /\ rs.consumer = "closed"

\* the callback failed on the second event while the receive loop held a
\* third one, which the turn never receives
C31_Witness ==
    /\ turn.pc = "done"
    /\ turn.exit = "chunk"
    /\ Len(turn.chunks) = 2
    /\ rs.recvClosed
    /\ rs.loop = "send"

\* the events that end a response
Terminal(e) == e.event \in {"done", "error"}

\* the events made from the chunks of the stream
ChunkEvent(e) ==
    e.event \in {"reasoning", "content", "image", "audio", "video", "multimodal"}

\* what the response of the handler's turn holds so far
ResponseWellFormed ==
    LET n == Len(turn.sse)
        terminals == {i \in 1..n : Terminal(turn.sse[i])}
    IN  /\ Cardinality(terminals) <= 1
        /\ terminals \subseteq {n}
        /\ turn.finished <=> terminals # {}
        /\ (\E i \in 1..n : turn.sse[i].event = "done") =>
              \E a \in AssistantRows : db.messages[a] = AssistantRow
        /\ \A i, j \in 1..n :
              (turn.sse[i].event = "info" /\ ChunkEvent(turn.sse[j])) => i < j
        /\ (\E j \in 1..n : ChunkEvent(turn.sse[j])) =>
              turn.sse[1].event = "info"

RECURSIVE AncestorsOf(_, _)
\* the rows reached from row m along parent_id, m included
AncestorsOf(d, m) ==
    IF m \notin DOMAIN d.messages THEN {}
    ELSE IF d.messages[m].parent_id.Valid
    THEN {m} \cup AncestorsOf(d, d.messages[m].parent_id.Int64)
    ELSE {m}

\* the rows of a session and the rows above its first one
AncestorChain(d, sessionID) ==
    LET own == MessagesOf(d, sessionID)
    IN  IF own = {} THEN {} ELSE own \cup AncestorsOf(d, Min(own))

\* C33: the history a turn reads back for dispatch ends with the user
\* message the turn has just appended and holds only rows of the session's
\* ancestor chain, whatever other turns do on the same session meanwhile.
C33_HistoryEndsWithOwnMessage ==
    [][(turn.pc = "appended" /\ turn'.pc = "ready") =>
          LET ids == ResolvedIDs(db, turn.sessionID)
          IN  /\ ids # <<>>
              /\ ids[Len(ids)] = turn.userMsgID
              /\ \A i \in 1..Len(ids) :
                    ids[i] \in AncestorChain(db, turn.sessionID)]_vars

TreeOfMessage(d, m) ==
    IF d.messages[m].session_id \in DOMAIN d.sessions
    THEN d.sessions[d.messages[m].session_id].tree_id
    ELSE 0

\* C35: the parent id of every stored message, when set, is smaller than the
\* message's own id and names a stored message of the same tree; the ancestor
\* walk of GetSessionMessages therefore ends, and it meets no message twice.
C35_ParentsPointBack ==
    /\ \A m \in DOMAIN db.messages :
          db.messages[m].parent_id.Valid =>
              LET p == db.messages[m].parent_id.Int64
              IN  /\ p < m
                  /\ p \in DOMAIN db.messages
                  /\ TreeOfMessage(db, p) = TreeOfMessage(db, m)
    /\ \A s \in DOMAIN db.sessions :
          LET a == ancestors(db, s)
          IN  \A i, j \in 1..Len(a) : i < j => a[i] < a[j]

\* two trees hold messages, and a message of the second tree has a parent
C35_Witness ==
    \E m, k \in DOMAIN db.messages :
        /\ TreeOfMessage(db, m) = 2
        /\ TreeOfMessage(db, k) = 1
        /\ db.messages[m].parent_id.Valid

\* C36: two ResolveClient calls with the same model name and request client
\* on the same registered clients return the same client, also for a model
\* name that holds keywords of more than one registered client.
C36_ResolveClientDeterministic ==
    (app.fn = "ResolveClient twice" /\ app.done) => app.out[1] = app.out[2]

\* C37: a CreateBranchWithMessage call that returns an error (unknown parent,
\* serialization failure, failed message insert) leaves the store as it was:
\* no session row without messages stays behind.
C37_BranchAllOrNothing ==
    [][(Called("CreateBranchWithMessage") /\ ret'.err # ErrNone) => db' = db]_vars

\* C38: the stream reader of the Responses-API client returns io.EOF only
\* after it has read response.completed or [DONE]; a connection that ends
\* before either makes it return an error.
C38_EOFOnlyAfterCompleted ==
    (app.fn = "streamReader.Recv" /\ app.done) =>
        LET last == app.out[Len(app.out)]
            read == {i \in 1..Len(app.arg[1]) : i < last.pos}
        IN  last.ret = "io.EOF" =>
                \E i \in read :
                    TrimSpace(app.arg[1][i]) \in
                        {"event: response.completed", "data: [DONE]"}

\* C39: a saved login state verifies at most once, also when two callbacks
\* with the same state run at the same time; a state that was never saved or
\* has expired does not verify.
C39_StateVerifiesOnce ==
    app.fn = "StateStore" =>
        /\ \A state \in 1..MaxStates :
              Cardinality({i \in 1..Len(app.out) :
                              app.out[i].state = state /\ app.out[i].ok}) <= 1
        /\ \A i \in 1..Len(app.out) :
              app.out[i].ok =>
                  /\ app.out[i].state \in DOMAIN app.arg.saved
                  /\ app.out[i].at <= app.arg.saved[app.out[i].state]

\* C40: GetSessionMessages returns the same empty result for a session that
\* does not exist and for a stored session without messages, so GetSession
\* reports session not found for a stored session that has no message.
C40_EmptySessionNotFound ==
    [][(ret'.op = "GetSession" /\ ret' # ret) =>
          LET s == ret'.sessionID
              empty == ~SessionExists(db, s) \/ MessagesOf(db, s) = {}
          IN  /\ empty => GetSessionMessages(db, s) = <<>>
              /\ empty => (ret'.err = ErrSessionNotFound /\ ret'.msgID = 0)
              /\ ret'.err = ErrSessionNotFound <=>
                    GetSessionMessages(db, s) = <<>>]_vars

\* GetSession has just reported a stored session without messages as not
\* found, beside a session that holds messages
C40_Witness ==
    /\ ret.op = "GetSession"
    /\ ret.err = ErrSessionNotFound
    /\ SessionExists(db, ret.sessionID)
    /\ MessagesOf(db, ret.sessionID) = {}
    /\ db.messages # NoRows

====
